---- MODULE Spec2Model ----
(***************************************************************************)
(* A model of the policy-gated decision loop of the autonomous trading     *)
(* agent: the JSON state store (core/memory.py), the policy engine         *)
(* (core/policy_engine.py), the position ledger (tools/position_tool.py)   *)
(* the self-modification sandbox (core/sandbox.py) and the PERCEIVE ->     *)
(* REASON -> ACT -> REFLECT graph (core/agent.py).                         *)
(*                                                                         *)
(* Real quantities (SOL amounts, USD notionals, confidences) are floats in *)
(* the program; here they are integers counting hundredths, so 0.1 SOL is  *)
(* 10, 50.0 USD is 5000 and a confidence of 0.6 is 60.  ISO dates are day  *)
(* numbers, the empty date string is NoDate.                               *)
(*                                                                         *)
(* These specifications share the variables:                               *)
(*   SpecStore   the store's operations, save() taken step by step         *)
(*   SpecSend    check_wallet_send and load() against a changing store     *)
(*   SpecSwap    check_swap against a changing store                       *)
(*   SpecLedger  the position ledger                                       *)
(*   SpecPaths   check_git_paths on paths with traversal                   *)
(*   SpecUrl     check_browser_url on URLs of every form                   *)
(*   SpecSandbox Sandbox.apply on one checkout                             *)
(*   Spec        the agent graph, one invocation                           *)
(*   SpecBench   the benchmark anchor under the store's methods            *)
(*   SpecFound   the store's methods on whatever file they find            *)
(*   SpecRace    two invocations sending side by side                      *)
(*   SpecSync    sync_from_onchain against a changing ledger               *)
(*   SpecHistory recent_trades and review_history on a growing trade list  *)
(*   SpecSwapTool SwapTool.swap on every network and strategy outcome      *)
(*   SpecDay     wallet sends of successive invocations                    *)
(***************************************************************************)
EXTENDS Integers, Sequences, FiniteSets, TLC

VARIABLES
    file,        \* the document at the store path: [kind, doc]
    tmp,         \* the temporary file of the save in progress: [kind, doc]
    today,       \* date.today() as a day number
    mcfg,        \* MemoryConfig: [max_reflections, max_trades, max_swap_history]
    serial,      \* number of list entries appended so far (identifies entries)
    saveQ,       \* states the running store operation still has to save()
    spc,         \* where the running store operation is
    opRes,       \* how the last store operation ended: running, returned, raised, crashed
    call,        \* the last call of a policy check or ledger method, with its outcome
    pc,          \* the node of the agent graph about to run
    st,          \* the AgentState threaded through the nodes
    hist,        \* what the current invocation has done so far
    chain,       \* the live wallet balances
    proc,        \* the process: [dry_run, network]
    tree,        \* the project checkout: [dirs, files, commits]
    inv          \* invocations running side by side: each [pc, amount, seen, loaded]

diskVars  == <<file, tmp>>
envVars   == <<today, mcfg, serial>>
storeVars == <<saveQ, spc, opRes>>
agentVars == <<pc, st, hist, chain, proc, tree, inv>>
vars      == <<diskVars, envVars, storeVars, call, agentVars>>

----------------------------------------------------------------------------
(* Bounds of the model *)

\* days the clock runs through
MaxDay == 2
\* largest rotation cap tried for a list (0 disables rotation, as in the code)
MaxCap == 2
\* list entries appended in one behaviour
MaxAppends == 3

NoDate == 0
Dates  == 1..MaxDay

Min(a, b) == IF a < b THEN a ELSE b
Max(a, b) == IF a > b THEN a ELSE b
Abs(a)    == IF a < 0 THEN -a ELSE a

\* arr[-n:] of Python for n > 0
LastN(arr, n) == SubSeq(arr, Max(1, Len(arr) - n + 1), Len(arr))
\* arr[:-n] of Python for n > 0
DropLastN(arr, n) == SubSeq(arr, 1, Max(0, Len(arr) - n))

\* a mapping with no keys
EmptyMap == [k \in {} |-> 0]

----------------------------------------------------------------------------
(* core/memory.py: the persisted document *)

DEFAULT_STATE ==
    [ daily_spend_sol  |-> 0,
      daily_spend_date |-> NoDate,
      daily_swap_usd   |-> 0,
      daily_swap_date  |-> NoDate,
      reflections      |-> <<>>,
      trades           |-> <<>>,
      trade_summaries  |-> <<>>,
      benchmark        |-> [start_date |-> NoDate, start_portfolio_usd |-> 0,
                            start_prices |-> EmptyMap],
      positions        |-> EmptyMap,
      swap_history     |-> <<>>,
      \* the "[SYMBOL] close=" lines of the stored text, "" holding none
      last_observations |-> EmptyMap,
      last_observations_prices |-> EmptyMap ]

\* What a path holds: nothing, a complete JSON document, or a truncated write.
NoFile      == [kind |-> "none",    doc |-> DEFAULT_STATE]
DocFile(d)  == [kind |-> "doc",     doc |-> d]
PartialFile == [kind |-> "partial", doc |-> DEFAULT_STATE]
EmptyFile   == [kind |-> "empty",   doc |-> DEFAULT_STATE]

\* _summarize_trades: period, total, per-action counts and the success count
\* (success_rate is successes / total; the quotient is kept as its numerator).
summarize_trades(trades) ==
    LET n == Len(trades)
        acts == {trades[i].action_type : i \in 1..n}
        failed == {i \in 1..n : trades[i].result \in {"failed", "blocked"}}
    IN  [ period    |-> IF n > 0 THEN <<trades[1].date, trades[n].date>>
                                 ELSE <<NoDate, NoDate>>,
          total     |-> n,
          actions   |-> [a \in acts |->
                            Cardinality({i \in 1..n : trades[i].action_type = a})],
          successes |-> n - Cardinality(failed) ]

\* a rotation that keeps the oldest entries (arr[:limit])
RotateList_oldest(arr, limit) ==
    IF limit <= 0 \/ Len(arr) <= limit THEN arr ELSE SubSeq(arr, 1, limit)

\* one list of _summarize_and_rotate's loop: a limit <= 0 skips the list
RotateList(arr, limit) ==
    IF limit <= 0 \/ Len(arr) <= limit THEN arr ELSE LastN(arr, limit)

PrunedOf(arr, limit) ==
    IF limit <= 0 \/ Len(arr) <= limit THEN <<>> ELSE DropLastN(arr, limit)

\* a rotation that drops the pruned trades without summarising them
summarize_and_rotate_unsummarized(state, c) ==
    [state EXCEPT
        !.reflections  = RotateList(@, c.max_reflections),
        !.trades       = RotateList(@, c.max_trades),
        !.swap_history = RotateList(@, c.max_swap_history)]

\* _summarize_and_rotate under configuration c
summarize_and_rotate(state, c) ==
    LET pruned == PrunedOf(state.trades, c.max_trades)
    IN  [state EXCEPT
            !.reflections     = RotateList(@, c.max_reflections),
            !.trades          = RotateList(@, c.max_trades),
            !.trade_summaries = IF pruned # <<>>
                                THEN Append(@, summarize_trades(pruned))
                                ELSE @,
            !.swap_history    = RotateList(@, c.max_swap_history)]

\* a reset that moves the dates to today and leaves the counters as they were
ResetStale_keep(state, d) ==
    [state EXCEPT !.daily_spend_date = d, !.daily_swap_date = d]

\* load(): the daily reset of the two counters, each on its own date
ResetStale(state, d) ==
    [state EXCEPT
        !.daily_spend_sol  = IF state.daily_spend_date # d THEN 0 ELSE @,
        !.daily_spend_date = d,
        !.daily_swap_usd   = IF state.daily_swap_date # d THEN 0 ELSE @,
        !.daily_swap_date  = d]

LoadMutated(f, d) ==
    /\ f.kind = "doc"
    /\ (f.doc.daily_spend_date # d \/ f.doc.daily_swap_date # d)

\* json.load(fh) is outside any try: a file that is no JSON document makes
\* load() raise
LoadRaises(f) == f.kind \in {"partial", "empty"}

\* The state load() returns when every write succeeds.  save() rotates the
\* dict it is handed in place, so a reset state comes back rotated.
LoadState(f, d, c) ==
    IF f.kind = "none" THEN DEFAULT_STATE
    ELSE IF LoadMutated(f, d) THEN summarize_and_rotate(ResetStale(f.doc, d), c)
    ELSE f.doc

\* The path's content after a load() whose save (if any) succeeded.
FileAfterLoad(f, d, c) ==
    IF LoadMutated(f, d) THEN DocFile(LoadState(f, d, c)) ELSE f

\* The path's content after save(state) succeeded.
FileAfterSave(state, c) == DocFile(summarize_and_rotate(state, c))

----------------------------------------------------------------------------
(* core/memory.py: the mutations the store's methods apply to a loaded state *)

\* the trades the store is given: an action type and whether the result text
\* says "failed" or "blocked"; entries alternate between the two kinds
TradeKind(id) == IF id % 2 = 1 THEN <<"swap", "ok">> ELSE <<"noop", "failed">>

NewTrade(id, d, a, r) == [id |-> id, date |-> d, action_type |-> a, result |-> r]
NewReflection(id, d, t) == [id |-> id, date |-> d, text |-> t]

\* add_spend: state["daily_spend_sol"] += amount; the date is set to today
add_spend(state, amount, d) ==
    [state EXCEPT !.daily_spend_sol = @ + amount, !.daily_spend_date = d]

\* add_swap_usd
add_swap_usd(state, amount, d) ==
    [state EXCEPT !.daily_swap_usd = @ + amount, !.daily_swap_date = d]

\* append_reflection
append_reflection(state, id, d, t) ==
    [state EXCEPT !.reflections = Append(@, NewReflection(id, d, t))]

\* an append_trade that writes the record twice
append_trade_twice(state, id, d, a, r) ==
    [state EXCEPT !.trades = Append(Append(@, NewTrade(id, d, a, r)), NewTrade(id, d, a, r))]

\* append_trade
append_trade(state, id, d, a, r) ==
    [state EXCEPT !.trades = Append(@, NewTrade(id, d, a, r))]

\* PositionTool.append_swap
append_swap(state, rec) ==
    [state EXCEPT !.swap_history = Append(@, rec)]

----------------------------------------------------------------------------
(* SpecStore: the store's operations with save() taken step by step.       *)
(* An operation loads (and saves the daily reset if one is due), mutates   *)
(* the state in memory and saves it; saveQ holds the states still to be    *)
(* handed to save().  The process may die between any two steps.           *)

NoRes == "returned"

\* the states a method hands to save(): the reset one inside load(), then its own
SavesOf(s2, writes) ==
    (IF LoadMutated(file, today) THEN <<ResetStale(file.doc, today)>> ELSE <<>>)
    \o (IF writes THEN <<s2>> ELSE <<>>)

Begin(name, s2, writes) ==
    /\ spc = "idle"
    /\ saveQ' = SavesOf(s2, writes)
    /\ spc' = IF saveQ' = <<>> THEN "idle" ELSE "call_save"
    /\ opRes' = IF saveQ' = <<>> THEN "returned" ELSE "running"
    /\ UNCHANGED <<diskVars, today, mcfg, call, agentVars>>

Loaded == LoadState(file, today, mcfg)

\* load() called on its own
StoreLoad ==
    /\ Begin("load", Loaded, FALSE)
    /\ UNCHANGED serial

StoreAppendReflection ==
    /\ serial < MaxAppends
    /\ serial' = serial + 1
    /\ Begin("append_reflection", append_reflection(Loaded, serial + 1, today, "plan"), TRUE)

StoreAppendTrade ==
    LET k == TradeKind(serial + 1)
    IN  /\ serial < MaxAppends
        /\ serial' = serial + 1
        /\ Begin("append_trade", append_trade(Loaded, serial + 1, today, k[1], k[2]), TRUE)

StoreAppendSwap ==
    /\ serial < MaxAppends
    /\ serial' = serial + 1
    /\ Begin("append_swap", append_swap(Loaded, [id |-> serial + 1, date |-> today]), TRUE)

\* a client that loads, appends two trades to the list and saves (the
\* load / edit / save pattern of the tests and of the position ledger)
StoreSaveEdited ==
    /\ serial + 2 <= MaxAppends
    /\ serial' = serial + 2
    /\ Begin("save", append_trade(append_trade(Loaded, serial + 1, today, "swap", "ok"),
                                  serial + 2, today, "swap", "failed"), TRUE)

\* save(): mkdir + tempfile.mkstemp
SaveMkstemp ==
    /\ spc = "call_save"
    /\ tmp' = EmptyFile
    /\ spc' = "tmp_created"
    /\ UNCHANGED <<file, envVars, saveQ, opRes, call, agentVars>>

\* a save() that writes the document straight to the store path
SaveWriteSome_inplace ==
    /\ spc = "tmp_created"
    /\ file' = PartialFile
    /\ spc' = "tmp_partial"
    /\ UNCHANGED <<tmp, envVars, saveQ, opRes, call, agentVars>>

\* save(): json.dump has written part of the document
SaveWriteSome ==
    /\ spc = "tmp_created"
    /\ tmp' = PartialFile
    /\ spc' = "tmp_partial"
    /\ UNCHANGED <<file, envVars, saveQ, opRes, call, agentVars>>

\* save(): json.dump and the close of the temporary file have completed
SaveWriteRest ==
    /\ spc \in {"tmp_created", "tmp_partial"}
    /\ tmp' = FileAfterSave(Head(saveQ), mcfg)
    /\ spc' = "tmp_written"
    /\ UNCHANGED <<file, envVars, saveQ, opRes, call, agentVars>>

\* save(): os.replace(tmp, path)
SaveReplace ==
    /\ spc = "tmp_written"
    /\ file' = tmp
    /\ tmp' = NoFile
    /\ saveQ' = Tail(saveQ)
    /\ spc' = IF saveQ' = <<>> THEN "idle" ELSE "call_save"
    /\ opRes' = IF saveQ' = <<>> THEN "returned" ELSE opRes
    /\ UNCHANGED <<envVars, call, agentVars>>

\* save(): the write or the replace raises: except -> os.unlink(tmp); raise
SaveWriteError ==
    /\ spc \in {"tmp_created", "tmp_partial", "tmp_written"}
    /\ tmp' = NoFile
    /\ saveQ' = <<>>
    /\ spc' = "raised"
    /\ opRes' = "raised"
    /\ UNCHANGED <<file, envVars, call, agentVars>>

\* the process dies in the middle of save()
SaveCrash ==
    /\ spc \in {"tmp_created", "tmp_partial", "tmp_written"}
    /\ spc' = "crashed"
    /\ opRes' = "crashed"
    /\ UNCHANGED <<diskVars, envVars, saveQ, call, agentVars>>

\* the caller goes on after the error, or a new process starts after the crash
\* (the dead process's temporary file stays behind under its own name)
StoreResume ==
    /\ spc \in {"raised", "crashed"}
    /\ spc' = "idle"
    /\ saveQ' = <<>>
    /\ tmp' = NoFile
    /\ UNCHANGED <<file, envVars, opRes, call, agentVars>>

\* midnight passes between two operations
NextDay ==
    /\ spc = "idle"
    /\ today < MaxDay
    /\ today' = today + 1
    /\ UNCHANGED <<diskVars, mcfg, serial, storeVars, call, agentVars>>

Caps == 0..MaxCap

NoCall == [op |-> "none"]

\* the agent before its graph is built
\* a file's text: which text it is, and text.count("\n")
OriginalText == [name |-> "original", newlines |-> 3]

\* the checkout the process starts in: tools/ and tests/ exist, tools/x.py is
\* committed
StartTree ==
    [dirs |-> {<<"tools">>, <<"tests">>},
     files |-> [p \in {<<"tools", "x.py">>} |-> OriginalText],
     commits |-> 0]

AgentIdle ==
    /\ tree = StartTree
    /\ inv = <<>>
    /\ pc = "off"
    /\ st = [plan |-> "none"]
    /\ hist = [runs |-> 0]
    /\ chain = [SOL |-> 0]
    /\ proc = [dry_run |-> FALSE, network |-> "devnet"]

InitStore ==
    /\ file = NoFile
    /\ tmp = NoFile
    /\ today = 1
    /\ mcfg \in [max_reflections : Caps, max_trades : Caps, max_swap_history : Caps]
    /\ serial = 0
    /\ saveQ = <<>>
    /\ spc = "idle"
    /\ opRes = NoRes
    /\ call = NoCall
    /\ AgentIdle

NextStore ==
    \/ StoreLoad
    \/ StoreAppendReflection
    \/ StoreAppendTrade
    \/ StoreAppendSwap
    \/ StoreSaveEdited
    \/ SaveMkstemp
    \/ SaveWriteSome
    \/ SaveWriteRest
    \/ SaveReplace
    \/ SaveWriteError
    \/ SaveCrash
    \/ StoreResume
    \/ NextDay

SpecStore == InitStore /\ [][NextStore]_vars

----------------------------------------------------------------------------
(* Claims about the store, checked under SpecStore *)

\* the step in which a save() completes: os.replace has run
SaveCompletes == spc = "tmp_written" /\ spc' \in {"idle", "call_save"}

\* C4: while save() runs, the document at the store path changes only in the
\* os.replace step, and then to the complete new document; a crash or an error
\* at any step leaves the previous document there, never a partial one; on an
\* error the temporary file is removed and the operation raises.
C4_SaveIsAtomic ==
    [][ /\ file'.kind \in {"none", "doc"}
        /\ (file' # file =>
                /\ SaveCompletes
                /\ file' = DocFile(summarize_and_rotate(Head(saveQ), mcfg)))
        /\ (spc' = "crashed" => file' = file)
        /\ (spc' = "raised" /\ spc # "raised" =>
                file' = file /\ tmp'.kind = "none" /\ opRes' = "raised") ]_vars

\* C4 witness: the process died with the temporary file half written while a
\* previously saved document was at the store path.
C4_Witness ==
    spc = "crashed" /\ tmp.kind = "partial" /\ file.kind = "doc"

\* out holds the last Len(out) entries of inp, in their order
KeptMostRecent(inp, out) ==
    /\ Len(out) <= Len(inp)
    /\ \A i \in 1..Len(out) : out[i] = inp[Len(inp) - Len(out) + i]

\* out is inp cut to its cap most recent entries
CutToCap(inp, out, cap) ==
    Len(out) = Min(cap, Len(inp)) /\ KeptMostRecent(inp, out)

\* the trades missing from out got exactly one summary record, which covers them
PrunedAreSummarized(inp, out) ==
    LET np == Len(inp.trades) - Len(out.trades)
        ns == Len(inp.trade_summaries)
    IN  IF np <= 0 THEN out.trade_summaries = inp.trade_summaries
        ELSE /\ Len(out.trade_summaries) = ns + 1
             /\ SubSeq(out.trade_summaries, 1, ns) = inp.trade_summaries
             /\ LET s == out.trade_summaries[ns + 1]
                IN  /\ s.total = np
                    /\ s.period = <<inp.trades[1].date, inp.trades[np].date>>
                    /\ DOMAIN s.actions = {inp.trades[i].action_type : i \in 1..np}
                    /\ \A a \in DOMAIN s.actions :
                          s.actions[a] =
                            Cardinality({i \in 1..np : inp.trades[i].action_type = a})
                    /\ s.successes =
                          Cardinality({i \in 1..np : inp.trades[i].result = "ok"})

\* C7 as stated: after every save(), for every configured cap, each of the three
\* lists holds at most its cap of entries, the most recent ones in order, and a
\* save that prunes trades appends exactly one summary covering them.
C7_Original ==
    [][ SaveCompletes =>
          LET inp == Head(saveQ)  out == file'.doc
          IN  /\ CutToCap(inp.reflections, out.reflections, mcfg.max_reflections)
              /\ CutToCap(inp.trades, out.trades, mcfg.max_trades)
              /\ CutToCap(inp.swap_history, out.swap_history, mcfg.max_swap_history)
              /\ PrunedAreSummarized(inp, out) ]_vars

RotatedOrKept(inp, out, cap) ==
    IF cap > 0 THEN CutToCap(inp, out, cap) ELSE out = inp

\* C7 amended: the same for every cap > 0; a cap <= 0 switches rotation of that
\* list off and save() keeps the whole list.
C7_RotationPositiveCaps ==
    [][ SaveCompletes =>
          LET inp == Head(saveQ)  out == file'.doc
          IN  /\ RotatedOrKept(inp.reflections, out.reflections, mcfg.max_reflections)
              /\ RotatedOrKept(inp.trades, out.trades, mcfg.max_trades)
              /\ RotatedOrKept(inp.swap_history, out.swap_history, mcfg.max_swap_history)
              /\ PrunedAreSummarized(inp, out) ]_vars

\* C7 witness: a save pruned two trades at once into one summary and kept the
\* newest max_trades of them.
C7_Witness ==
    /\ file.kind = "doc"
    /\ mcfg.max_trades > 0
    /\ Len(file.doc.trades) = mcfg.max_trades
    /\ Len(file.doc.trade_summaries) = 1
    /\ file.doc.trade_summaries[1].total = 2

----------------------------------------------------------------------------
(* tools/position_tool.py: the position ledger *)

\* str.upper() on the token symbols that occur
Upper(t) == CASE t = "sol" -> "SOL" [] t = "usdc" -> "USDC" [] OTHER -> t

ZeroPosition == [amount |-> 0, cost_basis_usd |-> 0, last_updated |-> NoDate,
                 source |-> ""]

\* positions.get(key) or the zeroed default
PositionOf(positions, key) ==
    IF key \in DOMAIN positions THEN positions[key] ELSE ZeroPosition

\* dict assignment positions[key] = rec
MapPut(m, key, rec) ==
    [k \in DOMAIN m \cup {key} |-> IF k = key THEN rec ELSE m[k]]

\* a sell that takes the sold fraction of the amount left, not of the amount held
ReducedCost_of_rest(cost, amount, delta) ==
    LET sold == Abs(delta)
    IN  IF sold >= amount THEN 0
        ELSE (cost * (amount - sold)) \div amount

\* the cost basis left by a sell: cost_basis *= 1 - min(1, |delta| / (amount + |delta|)),
\* in hundredths, rounded down
ReducedCost(cost, amount, delta) ==
    LET sold == Abs(delta)
    IN  IF sold >= amount + sold THEN 0
        ELSE (cost * amount) \div (amount + sold)

\* an update_position that does not clamp at zero
update_position_noclamp(state, token, amount_delta, usd_value, d) ==
    LET key == Upper(token)
        pos == PositionOf(state.positions, key)
        amount == pos.amount + amount_delta
        cost == IF amount_delta > 0 /\ usd_value > 0
                    THEN pos.cost_basis_usd + usd_value
                ELSE IF amount_delta < 0 /\ amount > 0 /\ pos.cost_basis_usd > 0
                    THEN ReducedCost(pos.cost_basis_usd, amount, amount_delta)
                ELSE pos.cost_basis_usd
    IN  [state EXCEPT !.positions =
            MapPut(@, key, [amount |-> amount, cost_basis_usd |-> cost,
                            last_updated |-> d, source |-> ""])]

\* update_position: the state it saves
update_position(state, token, amount_delta, usd_value, d) ==
    LET key == Upper(token)
        pos == PositionOf(state.positions, key)
        amount == pos.amount + amount_delta
        cost == IF amount_delta > 0 /\ usd_value > 0
                    THEN pos.cost_basis_usd + usd_value
                ELSE IF amount_delta < 0 /\ amount > 0 /\ pos.cost_basis_usd > 0
                    THEN ReducedCost(pos.cost_basis_usd, amount, amount_delta)
                ELSE pos.cost_basis_usd
        clamped == amount <= 0
    IN  [state EXCEPT !.positions =
            MapPut(@, key, [amount         |-> IF clamped THEN 0 ELSE amount,
                            cost_basis_usd |-> IF clamped THEN 0 ELSE cost,
                            last_updated   |-> d,
                            source         |-> ""])]

----------------------------------------------------------------------------
(* core/policy_engine.py and core/config.py: the policy checks.  Each check *)
(* is the reason it raises PolicyViolation with, or "pass".                 *)

\* PolicyConfig and SolanaConfig defaults, in hundredths
max_sol_per_tx == 10
daily_spend_cap_sol == 50
max_swap_usd_per_tx == 5000
daily_swap_cap_usd == 20000
mainnet_min_balance_sol == 10
confidence_threshold == 60
\* len(destination) < 32 is rejected
MinDestinationLen == 32

\* a daily cap that also rejects a projected total equal to the cap
OverDailyCap_inclusive(projected, cap) == projected >= cap

\* projected > cap
OverDailyCap(projected, cap) == projected > cap

\* check_wallet_send reads the store only after the two amount checks
WalletSendLoads(amount_sol) == amount_sol > 0 /\ amount_sol <= max_sol_per_tx

\* a check that leaves the daily cap out
check_wallet_send_nocap(f, d, c, amount_sol, dest_len) ==
    IF amount_sol <= 0 THEN "positive"
    ELSE IF amount_sol > max_sol_per_tx THEN "per_tx"
    ELSE IF dest_len < MinDestinationLen THEN "destination"
    ELSE "pass"

\* a check that tests the daily cap before the per-transaction cap
check_wallet_send_daily_first(f, d, c, amount_sol, dest_len) ==
    IF amount_sol <= 0 THEN "positive"
    ELSE IF OverDailyCap(LoadState(f, d, c).daily_spend_sol + amount_sol,
                         daily_spend_cap_sol) THEN "daily"
    ELSE IF amount_sol > max_sol_per_tx THEN "per_tx"
    ELSE IF dest_len < MinDestinationLen THEN "destination"
    ELSE "pass"

\* check_wallet_send(amount_sol, destination)
check_wallet_send(f, d, c, amount_sol, dest_len) ==
    IF amount_sol <= 0 THEN "positive"
    ELSE IF amount_sol > max_sol_per_tx THEN "per_tx"
    ELSE IF OverDailyCap(LoadState(f, d, c).daily_spend_sol + amount_sol,
                         daily_spend_cap_sol) THEN "daily"
    ELSE IF dest_len < MinDestinationLen THEN "destination"
    ELSE "pass"

SwapLoads(from_token, to_token, amount_usd) ==
    from_token # to_token /\ amount_usd > 0 /\ amount_usd <= max_swap_usd_per_tx

\* a check that tests the amount before it compares the tokens
check_swap_amount_first(f, d, c, from_token, to_token, amount_usd, network) ==
    IF amount_usd <= 0 THEN "positive"
    ELSE IF amount_usd > max_swap_usd_per_tx THEN "per_tx"
    ELSE IF from_token = to_token THEN "same_token"
    ELSE "pass"

\* check_swap(from_token, to_token, amount_usd, network)
check_swap(f, d, c, from_token, to_token, amount_usd, network) ==
    IF from_token = to_token THEN "same_token"
    ELSE IF amount_usd <= 0 THEN "positive"
    ELSE IF amount_usd > max_swap_usd_per_tx THEN "per_tx"
    ELSE LET state == LoadState(f, d, c)
         IN  IF OverDailyCap(state.daily_swap_usd + amount_usd, daily_swap_cap_usd)
                 THEN "daily"
             ELSE IF /\ network = "mainnet"
                     /\ Upper(from_token) = "SOL"
                     /\ PositionOf(state.positions, "SOL").amount - amount_usd
                            < mainnet_min_balance_sol
                 THEN "mainnet_safety"
             ELSE "pass"

\* A call that also hands over amount_native, as the tests of the mainnet guard
\* do: check_swap has no such parameter, so Python raises TypeError.
\* amount_native is <<n>> when given and <<>> when left out.
check_swap_call(f, d, c, from_token, to_token, amount_usd, network, amount_native) ==
    IF amount_native # <<>> THEN "TypeError"
    ELSE check_swap(f, d, c, from_token, to_token, amount_usd, network)

----------------------------------------------------------------------------
(* The store's methods taken as one step each (every write succeeds) *)

DoLoad == file' = FileAfterLoad(file, today, mcfg)

DoSave(state) == file' = FileAfterSave(state, mcfg)

Quiet == UNCHANGED <<tmp, mcfg, storeVars, agentVars>>

\* the memory limits of the deployed configuration are far above what a model
\* run appends; the policy and ledger specifications use this one
RoomyConfig == [max_reflections |-> MaxAppends + 1, max_trades |-> MaxAppends + 1,
                max_swap_history |-> MaxAppends + 1]

InitAtomic ==
    /\ file = NoFile
    /\ tmp = NoFile
    /\ today = 1
    /\ mcfg = RoomyConfig
    /\ serial = 0
    /\ saveQ = <<>>
    /\ spc = "idle"
    /\ opRes = NoRes
    /\ call = NoCall
    /\ AgentIdle

----------------------------------------------------------------------------
(* SpecSend: check_wallet_send and load() against a store whose counters    *)
(* are moved by add_spend, add_swap_usd and the passing of days.            *)

SendAmounts == {-1, 0, 5, 6, 10, 11, 46}
DestLens == {0, 5, 31, 32, 44}

SendCheck ==
    \E a \in SendAmounts, n \in DestLens :
        /\ call' = [op |-> "check_wallet_send", amount |-> a, dest_len |-> n,
                    day |-> today,
                    outcome |-> check_wallet_send(file, today, mcfg, a, n)]
        /\ IF WalletSendLoads(a) THEN DoLoad ELSE file' = file
        /\ UNCHANGED <<today, serial>>
        /\ Quiet

SendAddSpend ==
    \E a \in {5, 40} :
        /\ Loaded.daily_spend_sol + a <= daily_spend_cap_sol + 5
        /\ DoSave(add_spend(Loaded, a, today))
        /\ call' = [op |-> "add_spend", amount |-> a, day |-> today]
        /\ UNCHANGED <<today, serial>>
        /\ Quiet

SendAddSwapUsd ==
    /\ Loaded.daily_swap_usd + 1000 <= 1000
    /\ DoSave(add_swap_usd(Loaded, 1000, today))
    /\ call' = [op |-> "add_swap_usd", amount |-> 1000, day |-> today]
    /\ UNCHANGED <<today, serial>>
    /\ Quiet

\* load() called on its own; the call keeps the counters the file held before
SendLoad ==
    /\ call' = [op |-> "load", day |-> today, before_kind |-> file.kind,
                spend_before |-> <<file.doc.daily_spend_sol, file.doc.daily_spend_date>>,
                swap_before  |-> <<file.doc.daily_swap_usd, file.doc.daily_swap_date>>,
                ret |-> Loaded]
    /\ DoLoad
    /\ UNCHANGED <<today, serial>>
    /\ Quiet

NextSend ==
    \/ SendCheck
    \/ SendAddSpend
    \/ SendAddSwapUsd
    \/ SendLoad
    \/ NextDay

SpecSend == InitAtomic /\ [][NextSend]_vars

----------------------------------------------------------------------------
(* Claims about check_wallet_send and load(), checked under SpecSend *)

\* daily_spend_sol as a fresh load() on day d returns it
FreshSpend(f, d) ==
    IF f.kind = "doc" /\ f.doc.daily_spend_date = d THEN f.doc.daily_spend_sol ELSE 0

\* C2: for amount > 0 and a well-formed destination, check_wallet_send passes
\* exactly when amount <= max_sol_per_tx and the freshly loaded daily spend plus
\* amount is <= daily_spend_cap_sol; anything else is a PolicyViolation for the
\* cap that is exceeded.
C2_WalletSendCaps ==
    (call.op = "check_wallet_send" /\ call.amount > 0
        /\ call.dest_len >= MinDestinationLen) =>
    LET projected == FreshSpend(file, call.day) + call.amount
    IN  /\ (call.outcome = "pass") =
              (call.amount <= max_sol_per_tx /\ projected <= daily_spend_cap_sol)
        /\ call.outcome \in {"pass", "per_tx", "daily"}
        /\ (call.amount > max_sol_per_tx => call.outcome = "per_tx")

\* C2 witness: a send whose projected daily total equals the cap has passed.
C2_Witness ==
    /\ call.op = "check_wallet_send"
    /\ call.outcome = "pass"
    /\ FreshSpend(file, call.day) > 0
    /\ FreshSpend(file, call.day) + call.amount = daily_spend_cap_sol

\* the second send of the scenario: 0.46 SOL to a well-formed destination on a
\* day on which 0.05 SOL is recorded
SecondSendOfScenario ==
    /\ call.op = "check_wallet_send"
    /\ call.amount = 46
    /\ call.dest_len >= MinDestinationLen
    /\ FreshSpend(file, call.day) = 5

\* C24 as stated: with max_sol_per_tx = 0.1 and daily_spend_cap_sol = 0.5, after
\* a send of 0.05 SOL was recorded today, check_wallet_send(0.46, well-formed
\* destination) is rejected with the daily-spend cap as the reason.
C24_Original == SecondSendOfScenario => call.outcome = "daily"

\* C24 amended: that send is rejected, and the reason is the per-transaction
\* cap (0.46 > 0.1), which is tested before the store is read; the daily cap is
\* the reason only for an amount within the per-transaction cap.
C24_Amended ==
    /\ SecondSendOfScenario => call.outcome = "per_tx"
    /\ (call.op = "check_wallet_send" /\ call.outcome = "daily")
          => call.amount <= max_sol_per_tx

\* C24 witness: the second send of the scenario was checked and rejected
C24_Witness == SecondSendOfScenario /\ call.outcome # "pass"

\* C6: load() of a persisted document returns, for each of the two counters on
\* its own, 0 and today's date when the stored date differs from today, and the
\* file then shows the reset; a counter dated today comes back unchanged.
C6_DailyReset ==
    (call.op = "load" /\ call.before_kind = "doc") =>
    /\ file.kind = "doc"
    /\ call.ret.daily_spend_date = call.day
    /\ call.ret.daily_swap_date = call.day
    /\ file.doc.daily_spend_date = call.day
    /\ file.doc.daily_swap_date = call.day
    /\ IF call.spend_before[2] # call.day
          THEN call.ret.daily_spend_sol = 0 /\ file.doc.daily_spend_sol = 0
          ELSE /\ call.ret.daily_spend_sol = call.spend_before[1]
               /\ file.doc.daily_spend_sol = call.spend_before[1]
    /\ IF call.swap_before[2] # call.day
          THEN call.ret.daily_swap_usd = 0 /\ file.doc.daily_swap_usd = 0
          ELSE /\ call.ret.daily_swap_usd = call.swap_before[1]
               /\ file.doc.daily_swap_usd = call.swap_before[1]

\* C6 witness: a load() found both counters non-zero under yesterday's date.
C6_Witness ==
    /\ call.op = "load"
    /\ call.before_kind = "doc"
    /\ call.spend_before[1] > 0 /\ call.spend_before[2] \notin {NoDate, call.day}
    /\ call.swap_before[1] > 0 /\ call.swap_before[2] \notin {NoDate, call.day}

----------------------------------------------------------------------------
(* SpecSwap: check_swap against a store whose swap counter and SOL position *)
(* change.                                                                  *)

SwapTokens == {"SOL", "sol", "USDC"}
SwapUsd == {-500, 0, 10, 45, 1000, 5100}
Networks == {"mainnet", "devnet"}
Natives == {<<>>, <<10>>}

SwapCheck ==
    \E from \in SwapTokens, to \in {"SOL", "USDC"}, usd \in SwapUsd,
       net \in Networks, native \in Natives :
        /\ call' = [op |-> "check_swap", from_token |-> from, to_token |-> to,
                    amount_usd |-> usd, network |-> net, amount_native |-> native,
                    day |-> today,
                    outcome |-> check_swap_call(file, today, mcfg, from, to, usd,
                                                net, native)]
        /\ IF native = <<>> /\ SwapLoads(from, to, usd) THEN DoLoad ELSE file' = file
        /\ UNCHANGED <<today, serial>>
        /\ Quiet

SwapAddSwapUsd ==
    \E a \in {10000} :
        /\ Loaded.daily_swap_usd + a <= daily_swap_cap_usd
        /\ DoSave(add_swap_usd(Loaded, a, today))
        /\ call' = [op |-> "add_swap_usd", amount |-> a, day |-> today]
        /\ UNCHANGED <<today, serial>>
        /\ Quiet

\* the tracked SOL position is seeded and sold down
SwapUpdatePosition ==
    \E delta \in {50, -20} :
        /\ PositionOf(Loaded.positions, "SOL").amount + delta <= 50
        /\ DoSave(update_position(Loaded, "SOL", delta, 100 * Abs(delta), today))
        /\ call' = [op |-> "update_position", delta |-> delta, day |-> today]
        /\ UNCHANGED <<today, serial>>
        /\ Quiet

NextSwap ==
    \/ SwapCheck
    \/ SwapAddSwapUsd
    \/ SwapUpdatePosition
    \/ NextDay

SpecSwap == InitAtomic /\ [][NextSwap]_vars

\* C26: check_swap raises PolicyViolation, with the reason that the tokens must
\* differ, whenever from_token equals to_token: for every amount (positive,
\* zero, negative, above the caps), every network and every state of the store.
C26_SameTokenRejected ==
    (/\ call.op = "check_swap"
     /\ call.amount_native = <<>>
     /\ call.from_token = call.to_token)
        => call.outcome = "same_token"

\* C26 witness: a swap of a token into itself with a notional above the
\* per-transaction cap was checked on mainnet
C26_Witness ==
    /\ call.op = "check_swap"
    /\ call.amount_native = <<>>
    /\ call.from_token = call.to_token
    /\ call.amount_usd > max_swap_usd_per_tx
    /\ call.network = "mainnet"
    /\ call.outcome = "same_token"

\* the tracked SOL amount a fresh load() on day d shows
TrackedSol(f) ==
    IF f.kind = "doc" THEN PositionOf(f.doc.positions, "SOL").amount ELSE 0

FreshSwapUsd(f, d) ==
    IF f.kind = "doc" /\ f.doc.daily_swap_date = d THEN f.doc.daily_swap_usd ELSE 0

\* C3 as stated: on mainnet with from_token = SOL, a swap that is within the
\* other limits is rejected exactly when tracked SOL - native amount is below
\* mainnet_min_balance_sol, whatever the USD notional.
C3_Original ==
    (/\ call.op = "check_swap"
     /\ call.network = "mainnet"
     /\ Upper(call.from_token) = "SOL"
     /\ call.amount_native # <<>>
     /\ call.from_token # call.to_token
     /\ call.amount_usd > 0
     /\ call.amount_usd <= max_swap_usd_per_tx
     /\ FreshSwapUsd(file, call.day) + call.amount_usd <= daily_swap_cap_usd) =>
    ((call.outcome = "pass") =
        (TrackedSol(file) - call.amount_native[1] >= mainnet_min_balance_sol))

----------------------------------------------------------------------------
(* SpecLedger: update_position called with any token, delta and usd value *)

\* ledger calls in one behaviour
MaxUpdates == 3

LedgerTokens == {"SOL", "usdc"}
LedgerDeltas == {-60, -20, 0, 30, 50}
LedgerUsd == {-1000, 0, 3000}

LedgerUpdate ==
    \E t \in LedgerTokens, delta \in LedgerDeltas, usd \in LedgerUsd :
        LET before == PositionOf(Loaded.positions, Upper(t))
            after == update_position(Loaded, t, delta, usd, today)
        IN  /\ serial < MaxUpdates
            /\ serial' = serial + 1
            /\ DoSave(after)
            /\ call' = [op |-> "update_position", token |-> t, delta |-> delta,
                        usd_value |-> usd, day |-> today,
                        held |-> before.amount, cost |-> before.cost_basis_usd]
            /\ UNCHANGED today
            /\ Quiet

NextLedger ==
    \/ LedgerUpdate
    \/ NextDay

SpecLedger == InitAtomic /\ [][NextLedger]_vars

\* C8: after any sequence of update_position calls every tracked position has
\* amount >= 0 and cost_basis_usd >= 0, and a sell of at least the held amount
\* leaves both at 0.
C8_PositionsNonNegative ==
    /\ file.kind = "doc" =>
          \A k \in DOMAIN file.doc.positions :
              /\ file.doc.positions[k].amount >= 0
              /\ file.doc.positions[k].cost_basis_usd >= 0
    /\ (call.op = "update_position" /\ call.delta < 0 /\ -call.delta >= call.held) =>
          /\ file.doc.positions[Upper(call.token)].amount = 0
          /\ file.doc.positions[Upper(call.token)].cost_basis_usd = 0

\* C8 witness: more than the held amount of a position with a cost basis was sold.
C8_Witness ==
    /\ call.op = "update_position"
    /\ call.delta < 0
    /\ call.held > 0
    /\ call.cost > 0
    /\ -call.delta > call.held
    /\ file.doc.positions[Upper(call.token)].amount = 0

\* C23: a sell of d with 0 < d < held amount a and cost basis c > 0 leaves the
\* amount a - d and the cost basis c * (a - d) / a, to the hundredth below: the
\* cost basis is reduced by the sold fraction d / a.
C23_ProportionalCostBasis ==
    (/\ call.op = "update_position"
     /\ call.delta < 0
     /\ -call.delta < call.held
     /\ call.cost > 0)
        => LET pos == file.doc.positions[Upper(call.token)]
               kept == call.held + call.delta
           IN  /\ pos.amount = kept
               /\ pos.cost_basis_usd * call.held <= call.cost * kept
               /\ call.cost * kept < (pos.cost_basis_usd + 1) * call.held

\* C23 witness: part of a position with a cost basis was sold
C23_Witness ==
    /\ call.op = "update_position"
    /\ call.delta < 0
    /\ -call.delta < call.held
    /\ call.cost > 0
    /\ file.doc.positions[Upper(call.token)].cost_basis_usd < call.cost
    /\ file.doc.positions[Upper(call.token)].cost_basis_usd > 0

----------------------------------------------------------------------------
(* core/policy_engine.py: check_git_paths.  A path is [abs, segs]: whether  *)
(* it starts at the file-system root, and its components.                   *)

\* longest path, in components
MaxSegs == 3

\* Path.cwd(): the project root /app
Cwd == <<"app">>

Segments == {"tools", "experiments", "core", "..", "app", "x.py"}

RECURSIVE SeqsUpTo(_, _)
SeqsUpTo(S, n) ==
    IF n = 0 THEN {<<>>}
    ELSE LET shorter == SeqsUpTo(S, n - 1)
         IN  shorter \cup {Append(q, x) : q \in {r \in shorter : Len(r) = n - 1}, x \in S}

Paths == {[abs |-> a, segs |-> q] : a \in BOOLEAN, q \in SeqsUpTo(Segments, MaxSegs) \ {<<>>}}

\* Path.resolve() without symbolic links: ".." drops the last component and
\* stays at the root
RECURSIVE Normalize(_, _)
Normalize(segs, acc) ==
    IF segs = <<>> THEN acc
    ELSE IF Head(segs) = ".."
        THEN Normalize(Tail(segs), IF acc = <<>> THEN <<>>
                                   ELSE SubSeq(acc, 1, Len(acc) - 1))
    ELSE Normalize(Tail(segs), Append(acc, Head(segs)))

Resolve(p) == Normalize(p.segs, IF p.abs THEN <<>> ELSE Cwd)

IsUnder(r, base) == Len(r) >= Len(base) /\ SubSeq(r, 1, Len(base)) = base

\* resolved.relative_to(Path.cwd()) raises ValueError for a path outside cwd
RelativeToRaises(p) == ~IsUnder(Resolve(p), Cwd)

relative_to_cwd(p) == SubSeq(Resolve(p), Len(Cwd) + 1, Len(Resolve(p)))

\* resolved.startswith("tools/") or resolved.startswith("experiments/")
HasAllowedPrefix(rel) == Len(rel) >= 2 /\ rel[1] \in {"tools", "experiments"}

\* check_git_paths(paths): "pass", or the exception the first offending path raises
RECURSIVE check_git_paths(_)
check_git_paths(paths) ==
    IF paths = <<>> THEN "pass"
    ELSE IF RelativeToRaises(Head(paths)) THEN "ValueError"
    ELSE IF ~HasAllowedPrefix(relative_to_cwd(Head(paths))) THEN "PolicyViolation"
    ELSE check_git_paths(Tail(paths))

\* the path lists tried: one path, or a path after tools/x.py
PathLists ==
    {<<p>> : p \in Paths}
    \cup {<<[abs |-> FALSE, segs |-> <<"tools", "x.py">>], p>> : p \in Paths}

InitPaths == InitAtomic

PathsCheck ==
    /\ \E paths \in PathLists :
        call' = [op |-> "check_git_paths", paths |-> paths,
                 outcome |-> check_git_paths(paths)]
    /\ UNCHANGED <<file, today, serial>>
    /\ Quiet

NextPaths == PathsCheck

SpecPaths == InitPaths /\ [][NextPaths]_vars

\* a path that, with its traversal resolved, lies under tools/ or experiments/
\* of the project root
LiesInPermittedSubtree(p) ==
    \E sub \in {"tools", "experiments"} :
        /\ IsUnder(Resolve(p), Append(Cwd, sub))
        /\ Resolve(p) # Append(Cwd, sub)

\* C17: check_git_paths returns normally iff every path lies under tools/ or
\* experiments/ of the project root, and raises PolicyViolation for any other
\* path, one that resolves outside the project root included.
C17_Original ==
    call.op = "check_git_paths" =>
        IF \A i \in 1..Len(call.paths) : LiesInPermittedSubtree(call.paths[i])
            THEN call.outcome = "pass"
        ELSE call.outcome = "PolicyViolation"

----------------------------------------------------------------------------
(* core/sandbox.py: Sandbox.apply on the checkout.  Directories and files   *)
(* are named by their resolved path below the project root; git's index is  *)
(* not modelled, a commit is counted.                                       *)

\* config.policy.max_loc_delta
max_loc_delta == 200

\* policy.check_loc_delta(delta)
check_loc_delta(delta) ==
    IF delta > max_loc_delta \/ 0 - delta > max_loc_delta THEN "PolicyViolation"
    ELSE "pass"

\* the proper prefixes of a path: the directories above it
Parents(rel) == {SubSeq(rel, 1, n) : n \in 1..(Len(rel) - 1)}

\* the stages of apply a collaborator can fail at
SandboxFailures == {"pytest", "ruff", "commit", "push"}

\* the except branch: the original text is written back, or the file removed
RolledBack(t, target, had) ==
    [t EXCEPT !.files = IF had THEN t.files
                        ELSE [q \in DOMAIN t.files \ {target} |-> t.files[q]]]

\* Sandbox.apply(path, new_content, commit_message) with the collaborators
\* failing at stage fail ("none": they all succeed): how the call ends and the
\* checkout it leaves
apply(t, path, new_content, fail) ==
    LET verdict == check_git_paths(<<path>>)
        target == relative_to_cwd(path)
        \* file_path.parent.mkdir(parents=True, exist_ok=True)
        made == [t EXCEPT !.dirs = @ \cup Parents(target)]
        had == target \in DOMAIN t.files
        old_lines == IF had THEN t.files[target].newlines ELSE 0
        delta == new_content.newlines - old_lines
        written == [made EXCEPT !.files =
                        [q \in DOMAIN t.files \cup {target} |->
                            IF q = target THEN new_content ELSE t.files[q]]]
    IN  IF verdict # "pass" THEN [outcome |-> verdict, tree |-> t]
        ELSE IF check_loc_delta(delta) # "pass"
            THEN [outcome |-> "PolicyViolation", tree |-> made]
        ELSE IF fail \in {"pytest", "ruff"}
            THEN [outcome |-> "SandboxError", tree |-> RolledBack(made, target, had)]
        ELSE IF fail = "commit"
            THEN [outcome |-> "CalledProcessError",
                  tree |-> RolledBack(made, target, had)]
        ELSE IF fail = "push"
            THEN [outcome |-> "CalledProcessError",
                  tree |-> [RolledBack(made, target, had) EXCEPT !.commits = @ + 1]]
        ELSE [outcome |-> "push succeeded",
              tree |-> [written EXCEPT !.commits = @ + 1]]

----------------------------------------------------------------------------
(* core/agent.py: the PERCEIVE -> REASON -> ACT -> REFLECT graph.           *)
(* One behaviour of Spec is one invocation of main(): build_graph, then     *)
(* graph.invoke(_initial_state()).  Every store method is one step.         *)

\* _MAX_REASON_ACT_STEPS
MAX_REASON_ACT_STEPS == 2

\* ACT executions after which the graph runtime stops routing back to REASON
\* (the runtime's recursion limit; main() passes none of its own)
MaxActs == 3

\* MemoryConfig(): the limits main() runs with
DefaultMemoryConfig ==
    [max_reflections |-> 50, max_trades |-> 100, max_swap_history |-> 50]

\* AppConfig.allowed_domains
allowed_domains == {}

\* The plan REASON hands to ACT.  kind is "none" for None, "falsy" for a parsed
\* JSON value that is falsy and not an object ([], 0, "", false) and "dict"
\* for an object.  confidence is <<c>> for a number and <<>> for a value that
\* is not a number (a string, null); amount is params.amount_sol.
PlanNone  == [kind |-> "none",  action_type |-> "", confidence |-> <<>>, amount |-> 0]
PlanFalsy == [kind |-> "falsy", action_type |-> "", confidence |-> <<>>, amount |-> 0]

\* action_type values: the seven the prompt names, one of them in capitals, an
\* unknown string and a JSON number ("nonstring")
ActionTypes == {"wallet_send", "scrape", "analyze", "review_history",
                "extend_code", "swap", "noop", "ANALYZE", "dance", "nonstring"}

\* str.lower() on the action types that occur
Lower(t) == IF t = "ANALYZE" THEN "analyze" ELSE t

Confidences == {<<>>, <<confidence_threshold - 1>>, <<confidence_threshold>>}

PlanAmounts(a) ==
    CASE a = "wallet_send" -> {5, max_sol_per_tx + 1}
      [] a = "swap"        -> {0, 5}
      [] OTHER             -> {0}

DictPlans ==
    {[kind |-> "dict", action_type |-> a, confidence |-> c, amount |-> n] :
        a \in ActionTypes, c \in Confidences, n \in {0, 5, max_sol_per_tx + 1}}

\* What the model call yields: an exception, text without JSON, text whose
\* braces do not parse, the literal null, a falsy or a truthy JSON value that
\* is not an object, a JSON object, or an object wrapped in prose.
ModelOutputs ==
    {[form |-> f, plan |-> PlanNone] :
        f \in {"call_failed", "no_json", "bad_braces", "null", "truthy_value"}}
    \cup {[form |-> "falsy_value", plan |-> PlanFalsy]}
    \cup {[form |-> "object", plan |-> p] :
            p \in {q \in DictPlans : q.amount \in PlanAmounts(q.action_type)}}
    \cup {[form |-> "wrapped_object", plan |-> p] :
            p \in {q \in DictPlans : q.action_type = "noop" /\ q.amount = 0}}

\* json.loads(raw), the regex fallback and the except around both.
\* A truthy non-object value is returned as it is; reason_node then fails on it.
ParsePlan(out) ==
    CASE out.form \in {"call_failed", "no_json", "bad_braces", "null"} -> PlanNone
      [] OTHER -> out.plan

\* `if plan: plan.get(...)` after the try block
ReasonLogRaises(out) == out.form = "truthy_value"

\* _initial_state()
initial_state ==
    [plan |-> PlanNone, action_result |-> "", step |-> 0,
     last_action_type |-> "", done |-> FALSE]

\* the store as the next load() returns it, and the path after that load
Stored(f) == LoadState(f, today, mcfg)
AfterLoad(f) == FileAfterLoad(f, today, mcfg)
Put(state) == FileAfterSave(state, mcfg)

\* get_portfolio_value_usd: sum of amount * price over the tracked positions
RECURSIVE SumValue(_, _, _)
SumValue(positions, prices, keys) ==
    IF keys = {} THEN 0
    ELSE LET k == CHOOSE x \in keys : TRUE
             price == IF Upper(k) \in DOMAIN prices THEN prices[Upper(k)] ELSE 0
         IN  (positions[k].amount * price) \div 100
                 + SumValue(positions, prices, keys \ {k})

get_portfolio_value_usd(f, prices) ==
    SumValue(Stored(f).positions, prices, DOMAIN Stored(f).positions)

\* an ensure_benchmark_initialized that records the anchor on every call
ensure_benchmark_overwrite(f, portfolio_usd_now, prices_now) ==
    Put([Stored(f) EXCEPT !.benchmark =
            [start_date |-> today,
             start_portfolio_usd |-> portfolio_usd_now,
             start_prices |-> prices_now]])

\* ensure_benchmark_initialized: the path after the call
ensure_benchmark_initialized(f, portfolio_usd_now, prices_now) ==
    LET state == Stored(f)
    IN  IF state.benchmark.start_date = NoDate
            THEN Put([state EXCEPT !.benchmark =
                        [start_date |-> today,
                         start_portfolio_usd |-> portfolio_usd_now,
                         start_prices |-> prices_now]])
        ELSE AfterLoad(f)

\* MemoryConfig.compress_observations
compress_observations == TRUE

\* set_observations_compressed: the path after the call.  Compressing keeps
\* the price lines and stores "" as the text; otherwise the whole text is kept
set_observations_compressed(f, prices) ==
    IF ~compress_observations THEN Put([Stored(f) EXCEPT !.last_observations = prices])
    ELSE Put([Stored(f) EXCEPT !.last_observations_prices = prices,
                               !.last_observations = EmptyMap])

\* the price lines PERCEIVE may compress out of its observations: none when
\* every source failed, or the SOLUSDT close (90.00 USD)
ObservedPrices == {EmptyMap, [s \in {"SOLUSDT"} |-> 9000]}

\* the wallets the process may run with: on-chain SOL, in hundredths
WalletBalances == {0, 100}

\* the state files an invocation may find: none, or one whose spend counter
\* of day 1 is close to the daily cap
StartFiles == {NoFile, DocFile(add_spend(DEFAULT_STATE, daily_spend_cap_sol - 4, 1))}

NoRaise == "none"

\* how main() is started: with or without --dry-run, against devnet or mainnet
Processes ==
    {[dry_run |-> FALSE, network |-> "devnet"], [dry_run |-> TRUE, network |-> "devnet"],
     [dry_run |-> FALSE, network |-> "mainnet"]}

InitAgent ==
    /\ file \in StartFiles
    /\ tmp = NoFile
    /\ today = 1
    /\ mcfg = DefaultMemoryConfig
    /\ serial = 0
    /\ saveQ = <<>>
    /\ spc = "idle"
    /\ opRes = NoRes
    /\ call = NoCall
    /\ pc = "off"
    /\ st = initial_state
    /\ hist = [acts |-> 0, act_calls |-> 0, output |-> "none", raised |-> NoRaise,
               log |-> <<>>, moves |-> 0]
    /\ chain \in [SOL : WalletBalances]
    /\ proc \in Processes
    /\ tree = StartTree
    /\ inv = <<>>

AgentFrame == UNCHANGED <<tmp, today, mcfg, storeVars, call, proc, inv>>

\* the prices build_graph hands to the sync: {"SOL": 0.0, "USDC": 1.0}
StartupPrices == [k \in {"SOL", "USDC"} |-> IF k = "USDC" THEN 100 ELSE 0]

\* the position the sync writes for a token found on chain
SeededPosition(balance, price) ==
    [amount |-> balance,
     cost_basis_usd |-> IF price > 0 THEN (balance * price) \div 100 ELSE 0,
     last_updated |-> today, source |-> "onchain_sync"]

\* prices.get(key, 0.0)
PriceOf(prices, key) == IF key \in DOMAIN prices THEN prices[key] ELSE 0

\* a sync that writes every token found on chain, tracked or not
sync_from_onchain_overwrite(f, balances, prices) ==
    LET state == Stored(f)
        new == {k \in DOMAIN balances : balances[k] > 0}
        positions == [k \in DOMAIN state.positions \cup {Upper(k) : k \in new} |->
                        IF k \in {Upper(n) : n \in new}
                            THEN SeededPosition(balances[CHOOSE n \in new : Upper(n) = k],
                                                PriceOf(prices, k))
                        ELSE state.positions[k]]
    IN  IF new = {} THEN AfterLoad(f)
        ELSE Put([state EXCEPT !.positions = positions])

\* PositionTool.sync_from_onchain(wallet_tool, prices): the path after the
\* call, given the balances get_all_balances returned
sync_from_onchain(f, balances, prices) ==
    LET state == Stored(f)
        new == {k \in DOMAIN balances :
                    balances[k] > 0 /\ PositionOf(state.positions, Upper(k)).amount <= 0}
        positions == [k \in DOMAIN state.positions \cup {Upper(k) : k \in new} |->
                        IF k \in {Upper(n) : n \in new}
                            THEN SeededPosition(balances[CHOOSE n \in new : Upper(n) = k],
                                                PriceOf(prices, k))
                        ELSE state.positions[k]]
    IN  IF new = {} THEN AfterLoad(f)
        ELSE Put([state EXCEPT !.positions = positions])

\* build_graph: the tools are constructed and the ledger is synchronised with
\* the wallet; a failing balance fetch leaves the ledger alone
BuildGraph ==
    /\ pc = "off"
    /\ \E fetched \in BOOLEAN :
        file' = sync_from_onchain(file, IF fetched THEN [s \in {"SOL"} |-> chain.SOL]
                                        ELSE EmptyMap, StartupPrices)
    /\ pc' = "perceive"
    /\ UNCHANGED <<st, hist, chain, tree, serial>>
    /\ AgentFrame

\* One entry of the record of what a node did, in the order of its code: a
\* policy check with its verdict (ok), or a collaborator invoked (ok is TRUE:
\* the entry says the call was made, not how it ended).
Event(node, op, arg, ok) == [node |-> node, op |-> op, arg |-> arg, ok |-> ok]

\* _DEFAULT_SCRAPE_URLS
DEFAULT_SCRAPE_URLS ==
    << [scheme |-> TRUE, userinfo |-> <<>>, host |-> "dexscreener.com", port |-> FALSE,
        path |-> ""],
       [scheme |-> TRUE, userinfo |-> <<>>, host |-> "www.coingecko.com", port |-> FALSE,
        path |-> ""],
       [scheme |-> TRUE, userinfo |-> <<>>, host |-> "www.coingecko.com", port |-> FALSE,
        path |-> "en/crypto-gainers-losers"],
       [scheme |-> TRUE, userinfo |-> <<>>, host |-> "www.coinmarketcap.com", port |-> FALSE,
        path |-> ""] >>

\* the scrape loop of perceive_node: browser_tool.scrape(url) for every default
\* URL, a failing page caught and written into the observations
PerceiveLog ==
    [i \in 1..Len(DEFAULT_SCRAPE_URLS) |->
        Event("perceive", "browser_tool.scrape", DEFAULT_SCRAPE_URLS[i], TRUE)]

\* a node whose unguarded store call fails: the read (a file that is no JSON
\* document) or the write (save() re-raises) ends the node with an exception
NodeStoreFails(node) ==
    /\ pc' = "crashed"
    /\ hist' = [hist EXCEPT !.output = "none", !.raised = node,
                             !.log = IF node = "perceive_store" THEN PerceiveLog ELSE @]
    /\ UNCHANGED <<file, st>>

\* perceive_node: every source is read inside its own try; the compressed
\* prices are stored, outside any try, and the per-run counters are reset
Perceive ==
    /\ pc = "perceive"
    /\ \E prices \in ObservedPrices, store_ok \in BOOLEAN :
        IF store_ok
            THEN /\ file' = set_observations_compressed(file, prices)
                 /\ st' = [st EXCEPT !.step = 0, !.last_action_type = ""]
                 /\ pc' = "reason"
                 /\ hist' = [hist EXCEPT !.log = PerceiveLog]
        ELSE NodeStoreFails("perceive_store")
    /\ UNCHANGED <<chain, tree, serial>>
    /\ AgentFrame

\* reason_node: balance, load, history, benchmark, the model call and the
\* parse of its output; the store calls before the model call are outside any try
Reason ==
    /\ pc = "reason"
    /\ \/ NodeStoreFails("reason_store")
       \/ \E balance_ok \in BOOLEAN, out \in ModelOutputs :
           LET balance == IF balance_ok THEN chain.SOL ELSE -100
               f1 == AfterLoad(file)
               seen == Stored(f1).last_observations_prices
               has_sol == "SOLUSDT" \in DOMAIN seen
               prices == [k \in {"SOL", "USDC"} |->
                             IF k = "SOL" THEN seen["SOLUSDT"] ELSE 100]
               wallet_component ==
                   IF balance > 0 THEN (balance * prices["SOL"]) \div 100 ELSE 0
               portfolio_usd == wallet_component + get_portfolio_value_usd(f1, prices)
           IN  /\ file' = IF has_sol
                              THEN ensure_benchmark_initialized(f1, portfolio_usd, prices)
                          ELSE f1
               /\ IF ReasonLogRaises(out)
                      THEN /\ pc' = "crashed"
                           /\ st' = st
                           /\ hist' = [hist EXCEPT !.output = out.form, !.raised = "reason"]
                  ELSE /\ pc' = "act"
                       /\ st' = [st EXCEPT !.plan = ParsePlan(out)]
                       /\ hist' = [hist EXCEPT !.output = out.form]
    /\ UNCHANGED <<chain, tree, serial>>
    /\ AgentFrame

\* confidence < config.policy.confidence_threshold, accepting the threshold too
BelowThreshold_inclusive(confidence) == confidence <= confidence_threshold

\* confidence < config.policy.confidence_threshold
BelowThreshold(confidence) == confidence < confidence_threshold

\* A URL is [scheme, userinfo, host, port, path]: whether it starts with
\* "https://", the user and password written before "@", the host the request
\* goes to, whether ":443" follows it, and the path.  Its text is a sequence of
\* tokens, the separators ":" and "@" among them.
UserInfoTokens(userinfo) ==
    IF userinfo = <<>> THEN <<>>
    ELSE IF Len(userinfo) = 1 THEN <<userinfo[1], "@">>
    ELSE <<userinfo[1], ":", userinfo[2], "@">>

\* urlparse(url).netloc: what stands between "//" and the next "/"; empty
\* when the text has no "//"
netloc(url) ==
    IF ~url.scheme THEN <<>>
    ELSE UserInfoTokens(url.userinfo) \o <<url.host>>
            \o (IF url.port THEN <<":", "443">> ELSE <<>>)

LowerToken(t) ==
    CASE t = "CoinGecko.com" -> "coingecko.com"
      [] t = "DEVNET"        -> "devnet"
      [] OTHER               -> t

\* str.lower()
lower(tokens) == [i \in 1..Len(tokens) |-> LowerToken(tokens[i])]

\* domain.split(":")[0]
RECURSIVE BeforeFirstColon(_)
BeforeFirstColon(tokens) ==
    IF tokens = <<>> \/ Head(tokens) = ":" THEN <<>>
    ELSE <<Head(tokens)>> \o BeforeFirstColon(Tail(tokens))

\* the text a token sequence spells is an entry of the set
InDomains(tokens, domains) == Len(tokens) = 1 /\ tokens[1] \in domains

\* policy.check_browser_url(url) under the allowlist allowed
check_browser_url(allowed, url) ==
    IF InDomains(BeforeFirstColon(lower(netloc(url))), allowed) THEN "pass"
    ELSE "PolicyViolation"

\* the target of the scrape plans
ScrapeTarget ==
    [scheme |-> TRUE, userinfo |-> <<>>, host |-> "coindesk.com", port |-> FALSE,
     path |-> "markets"]

\* policy.check_swap(from_token, to_token, amount_usd) as act_node calls it:
\* the required argument network is not passed
check_swap_from_act(f, from_token, to_token, amount_usd) == "TypeError"

\* what one dispatch branch leaves behind
Outcome(result, f, sol, calls) ==
    [result |-> result, file |-> f, SOL |-> sol, calls |-> calls]

\* a wallet_send branch that sends and does not call add_spend
WalletSendOutcome_unrecorded(plan, ok, dry) ==
    LET verdict == check_wallet_send(file, today, mcfg, plan.amount, 44)
        f1 == IF WalletSendLoads(plan.amount) THEN AfterLoad(file) ELSE file
    IN  IF verdict # "pass" THEN Outcome("failed", f1, chain.SOL, 0)
        ELSE IF dry THEN Outcome("dry_run_send", f1, chain.SOL, 0)
        ELSE IF ~ok \/ chain.SOL < plan.amount THEN Outcome("failed", f1, chain.SOL, 1)
        ELSE Outcome("sent", f1, chain.SOL - plan.amount, 1)

\* the wallet_send branch in a process started with or without --dry-run
WalletSendOutcome(plan, ok, dry) ==
    \* the target is a base58 address of 44 characters
    LET verdict == check_wallet_send(file, today, mcfg, plan.amount, 44)
        f1 == IF WalletSendLoads(plan.amount) THEN AfterLoad(file) ELSE file
    IN  IF verdict # "pass" THEN Outcome("failed", f1, chain.SOL, 0)
        ELSE IF dry THEN Outcome("dry_run_send", f1, chain.SOL, 0)
        ELSE IF ~ok \/ chain.SOL < plan.amount THEN Outcome("failed", f1, chain.SOL, 1)
        ELSE Outcome("sent", Put(add_spend(Stored(f1), plan.amount, today)),
                     chain.SOL - plan.amount, 1)

DispatchWalletSend(plan, ok) == WalletSendOutcome(plan, ok, proc.dry_run)

DispatchScrape(plan, ok) ==
    IF check_browser_url(allowed_domains, ScrapeTarget) # "pass" THEN Outcome("failed", file, chain.SOL, 0)
    ELSE IF ok THEN Outcome("scraped", file, chain.SOL, 1)
    ELSE Outcome("failed", file, chain.SOL, 1)

DispatchAnalyze(plan, ok) ==
    IF ok THEN Outcome("analysis", file, chain.SOL, 1)
    ELSE Outcome("failed", file, chain.SOL, 1)

\* int(target) fails on a target that is not a number; recent(n) loads the store
DispatchReviewHistory(plan, ok) ==
    IF ok THEN Outcome("history", AfterLoad(file), chain.SOL, 0)
    ELSE Outcome("failed", file, chain.SOL, 0)

\* the target and the code of the extend_code plans: a new module in a new
\* package under tools/
ExtendTarget == [abs |-> FALSE, segs |-> <<"tools", "app", "x.py">>]

ExtendCode == [name |-> "patch", newlines |-> 1]

DispatchExtendCode(plan, ok) ==
    IF ok THEN Outcome("committed", file, chain.SOL, 1)
    ELSE Outcome("failed", file, chain.SOL, 1)

\* from_token SOL, to_token USDC; the notional is amount_sol * the stored
\* SOLUSDT price, or amount_sol when no price is stored
SwapOutcome(plan, ok, dry) ==
    LET f1 == AfterLoad(file)
        mem == Stored(f1)
        seen == mem.last_observations_prices
        amount_usd == IF "SOLUSDT" \in DOMAIN seen
                          THEN (plan.amount * seen["SOLUSDT"]) \div 100
                      ELSE plan.amount
        verdict == check_swap_from_act(f1, "SOL", "USDC", amount_usd)
        sold == update_position(mem, "SOL", -plan.amount, amount_usd, today)
        bought == update_position(Stored(Put(sold)), "USDC", plan.amount, amount_usd, today)
        logged == append_swap(Stored(Put(bought)),
                              [id |-> serial + 1, date |-> mem.daily_spend_date,
                               from_token |-> "SOL", to_token |-> "USDC",
                               amount_usd |-> amount_usd])
        counted == add_swap_usd(Stored(Put(logged)), amount_usd, today)
    IN  IF plan.amount <= 0 THEN Outcome("failed", file, chain.SOL, 0)
        ELSE IF ~ok \/ chain.SOL < plan.amount THEN Outcome("failed", file, chain.SOL, 1)
        ELSE IF verdict # "pass" THEN Outcome("failed", f1, chain.SOL, 1)
        ELSE IF dry THEN Outcome("swapped", Put(counted), chain.SOL, 1)
        ELSE Outcome("swapped", Put(counted), chain.SOL - plan.amount, 2)

DispatchSwap(plan, ok) == SwapOutcome(plan, ok, proc.dry_run)

Dispatch(plan, ok) ==
    CASE plan.action_type = "wallet_send"    -> DispatchWalletSend(plan, ok)
      [] plan.action_type = "scrape"         -> DispatchScrape(plan, ok)
      [] plan.action_type = "analyze"        -> DispatchAnalyze(plan, ok)
      [] plan.action_type = "review_history" -> DispatchReviewHistory(plan, ok)
      [] plan.action_type = "extend_code"    -> DispatchExtendCode(plan, ok)
      [] plan.action_type = "swap"           -> DispatchSwap(plan, ok)
      [] OTHER                               -> Outcome("noop", file, chain.SOL, 0)

\* the USD notional act_node computes for a swap of amount SOL
SwapNotional(f, amount) ==
    LET seen == Stored(AfterLoad(f)).last_observations_prices
    IN  IF "SOLUSDT" \in DOMAIN seen THEN (amount * seen["SOLUSDT"]) \div 100
        ELSE amount

\* The calls of one dispatch branch in the order the code makes them; a check
\* that raises ends the branch.

\* a wallet_send branch that sends first and checks afterwards
WalletSendLog_send_first(plan, dry) ==
    LET passed == check_wallet_send(file, today, mcfg, plan.amount, 44) = "pass"
    IN  (IF ~dry THEN <<Event("act", "wallet_tool.send", plan.amount, TRUE)>> ELSE <<>>)
        \o <<Event("act", "check_wallet_send", plan.amount, passed)>>

\* wallet_send: check_wallet_send, then wallet_tool.send unless --dry-run
WalletSendLog(plan, dry) ==
    LET passed == check_wallet_send(file, today, mcfg, plan.amount, 44) = "pass"
    IN  <<Event("act", "check_wallet_send", plan.amount, passed)>>
        \o (IF passed /\ ~dry THEN <<Event("act", "wallet_tool.send", plan.amount, TRUE)>>
            ELSE <<>>)

\* scrape: check_browser_url(url), then browser_tool.scrape(url)
ScrapeLog(url) ==
    LET passed == check_browser_url(allowed_domains, url) = "pass"
    IN  <<Event("act", "check_browser_url", url, passed)>>
        \o (IF passed THEN <<Event("act", "browser_tool.scrape", url, TRUE)>> ELSE <<>>)

\* Sandbox.apply: check_git_paths, mkdir, check_loc_delta, write_text
ApplyLog(t, path, new_content) ==
    LET path_ok == check_git_paths(<<path>>) = "pass"
        target == relative_to_cwd(path)
        old_lines == IF target \in DOMAIN t.files THEN t.files[target].newlines ELSE 0
        delta_ok == check_loc_delta(new_content.newlines - old_lines) = "pass"
    IN  <<Event("act", "check_git_paths", path, path_ok)>>
        \o (IF path_ok THEN <<Event("act", "check_loc_delta", path, delta_ok)>> ELSE <<>>)
        \o (IF path_ok /\ delta_ok THEN <<Event("act", "write_text", path, TRUE)>>
            ELSE <<>>)

\* swap: the amount test, wallet_tool.balance_token, memory.load, check_swap,
\* then swap_tool.swap unless --dry-run
SwapLog(plan, ok, dry) ==
    LET enough == ok /\ chain.SOL >= plan.amount
        passed == check_swap_from_act(AfterLoad(file), "SOL", "USDC",
                                      SwapNotional(file, plan.amount)) = "pass"
    IN  IF plan.amount <= 0 THEN <<>>
        ELSE <<Event("act", "wallet_tool.balance_token", "SOL", TRUE)>>
             \o (IF enough THEN <<Event("act", "check_swap", plan.amount, passed)>>
                 ELSE <<>>)
             \o (IF enough /\ passed /\ ~dry
                     THEN <<Event("act", "swap_tool.swap", plan.amount, TRUE)>>
                 ELSE <<>>)

DispatchLog(plan, ok) ==
    CASE plan.action_type = "wallet_send" -> WalletSendLog(plan, proc.dry_run)
      [] plan.action_type = "scrape"      -> ScrapeLog(ScrapeTarget)
      [] plan.action_type = "extend_code" -> ApplyLog(tree, ExtendTarget, ExtendCode)
      [] plan.action_type = "swap"        -> SwapLog(plan, ok, proc.dry_run)
      [] OTHER                            -> <<>>

\* the actions that move money or change the agent's own code
MovingActions == {"wallet_send", "swap", "extend_code"}

\* act_node returns before the dispatch: no plan, or confidence below threshold
ActReturnsEarly(result) ==
    /\ st' = [st EXCEPT !.action_result = result]
    /\ hist' = [hist EXCEPT !.acts = @ + 1, !.log = <<>>]
    /\ pc' = "route"
    /\ UNCHANGED <<file, chain, tree, serial>>

\* plan.get on a value that is no dict, or `<` between a non-number and a float
ActRaises ==
    /\ st' = st
    /\ hist' = [hist EXCEPT !.acts = @ + 1, !.raised = "act", !.log = <<>>]
    /\ pc' = "crashed"
    /\ UNCHANGED <<file, chain, tree, serial>>

ActDispatches(plan, ok) ==
    LET o == Dispatch(plan, ok)
    IN  /\ IF plan.action_type # "extend_code" THEN tree' = tree
           ELSE \E fail \in (IF ok THEN {"none"} ELSE SandboxFailures) :
                    tree' = apply(tree, ExtendTarget, ExtendCode, fail).tree
        /\ st' = [st EXCEPT !.action_result = o.result,
                            !.step = @ + 1,
                            !.last_action_type = plan.action_type]
        /\ hist' = [hist EXCEPT !.acts = @ + 1, !.act_calls = @ + o.calls,
                                 !.log = DispatchLog(plan, ok),
                                 !.moves = IF plan.action_type \in MovingActions
                                               THEN @ + 1 ELSE @]
        /\ file' = o.file
        /\ chain' = [chain EXCEPT !.SOL = o.SOL]
        /\ serial' = IF o.result = "swapped" THEN serial + 1 ELSE serial
        /\ pc' = "route"

Act ==
    /\ pc = "act"
    /\ \E ok \in BOOLEAN :
        CASE st.plan.kind = "none"  -> ActReturnsEarly("no valid plan produced")
          [] st.plan.kind = "falsy" -> ActRaises
          [] st.plan.kind = "dict" /\ st.plan.confidence = <<>> -> ActRaises
          [] OTHER ->
                IF BelowThreshold(st.plan.confidence[1])
                    THEN ActReturnsEarly("skipped")
                ELSE ActDispatches(st.plan, ok)
    /\ AgentFrame

\* a router that sends every action but noop back to REASON while steps remain
route_after_act_loop_all(state) ==
    IF state.step >= MAX_REASON_ACT_STEPS THEN "reflect"
    ELSE IF Lower(state.last_action_type) \notin {"", "noop"} THEN "reason"
    ELSE "reflect"

\* _route_after_act
route_after_act(state) ==
    IF state.step >= MAX_REASON_ACT_STEPS THEN "reflect"
    ELSE IF Lower(state.last_action_type) \in {"analyze", "scrape", "review_history"}
        THEN "reason"
    ELSE "reflect"

\* (state.get("last_action_type") or "").lower() on a value that is no string
RouteRaises(state) == state.last_action_type = "nonstring"

\* the conditional edge after ACT
RouteAfterAct ==
    /\ pc = "route"
    /\ IF RouteRaises(st)
           THEN pc' = "crashed" /\ hist' = [hist EXCEPT !.raised = "route"]
       ELSE /\ route_after_act(st) = "reason" => hist.acts < MaxActs
            /\ pc' = route_after_act(st)
            /\ hist' = hist
    /\ UNCHANGED <<file, st, chain, tree, serial>>
    /\ AgentFrame

\* the graph runtime gives up on an invocation that keeps routing back to REASON
RecursionLimit ==
    /\ pc = "route"
    /\ ~RouteRaises(st)
    /\ route_after_act(st) = "reason"
    /\ hist.acts >= MaxActs
    /\ pc' = "aborted"
    /\ UNCHANGED <<file, st, hist, chain, tree, serial>>
    /\ AgentFrame

\* the store writes of reflect_node, any one of which may fail (save() re-raises)
ReflectWrites == {"append_trade", "append_reflection", "drift_reflection",
                  "post_swap_reflection"}

\* the reflection f"plan={plan} | result={action_result}"
PlanResultText(plan, result) == <<"plan_result", plan, result>>

\* reflect_node: the trade record, the reflection, the drift check against the
\* wallet, the reconciliation of a larger drift and the balance snapshot after a
\* swap.  The reconciliation takes its price from the "[SOLUSDT] close=" line of
\* last_observations.  Only the two balance queries, the position read and the
\* post-swap write sit inside a try; a write that fails anywhere else leaves
\* reflect_node as an exception.  fails names the write that fails, "none" when
\* all succeed.
Reflect ==
    /\ pc = "reflect"
    /\ \E balance_ok \in BOOLEAN, post_ok \in BOOLEAN, fails \in ReflectWrites \cup {"none"} :
        LET action_type == IF st.plan.kind = "dict" THEN st.plan.action_type
                           ELSE "unknown"
            f1 == Put(append_trade(Stored(file), serial + 1, today, action_type,
                                   st.action_result))
            f2 == Put(append_reflection(Stored(f1), serial + 2, today,
                                        PlanResultText(st.plan, st.action_result)))
            tracked == PositionOf(Stored(f2).positions, "SOL").amount
            drift == Abs(chain.SOL - tracked)
            \* drift > 0.001 SOL
            drifted == balance_ok /\ 10 * drift > 1
            f3 == IF drifted
                      THEN Put(append_reflection(Stored(f2), serial + 3, today, <<"drift">>))
                  ELSE f2
            \* drift > 0.01 SOL and a price line in the stored text
            seen == Stored(f3).last_observations
            reconciled == balance_ok /\ drift > 1 /\ "SOLUSDT" \in DOMAIN seen
            adjusted == update_position(Stored(f3), "SOL", chain.SOL - tracked,
                                        (drift * seen["SOLUSDT"]) \div 100, today)
            f4 == IF reconciled
                      THEN Put(append_reflection(Stored(Put(adjusted)), serial + 4, today,
                                                 <<"reconciled">>))
                  ELSE IF balance_ok /\ drift > 1 THEN AfterLoad(f3)
                  ELSE f3
            post_swap == balance_ok /\ Lower(st.last_action_type) = "swap" /\ post_ok
            f5 == IF post_swap /\ fails # "post_swap_reflection"
                      THEN Put(append_reflection(Stored(f4), serial + 5, today,
                                                 <<"post_swap">>))
                  ELSE f4
            raised == CASE fails = "append_trade" -> TRUE
                        [] fails = "append_reflection" -> TRUE
                        [] fails = "drift_reflection" -> drifted
                        [] OTHER -> FALSE
        IN  /\ file' = CASE fails = "append_trade" -> file
                         [] fails = "append_reflection" -> f1
                         [] fails = "drift_reflection" /\ drifted -> f2
                         [] OTHER -> f5
            /\ IF raised
                   THEN /\ pc' = "crashed"
                        /\ st' = st
                        /\ hist' = [hist EXCEPT !.raised = fails]
               ELSE /\ pc' = "done"
                    /\ st' = [st EXCEPT !.done = TRUE]
                    /\ hist' = hist
    /\ serial' = serial + 5
    /\ UNCHANGED <<chain, tree>>
    /\ AgentFrame

NextAgent ==
    \/ BuildGraph
    \/ Perceive
    \/ Reason
    \/ Act
    \/ RouteAfterAct
    \/ RecursionLimit
    \/ Reflect
    \/ NextDay

Spec == InitAgent /\ [][NextAgent]_vars

\* C1: in one invocation REASON->ACT runs at most MAX_CYCLES (= 2) times,
\* whatever the model outputs and whichever actions fail.
C1_Original == hist.acts <= MAX_REASON_ACT_STEPS

\* C5: for every plan value REASON hands over and every policy violation or
\* collaborator failure, act_node returns to the control loop with an
\* action_result string and never raises.
C5_Original ==
    [][(pc = "act" /\ pc' # "act") => (pc' = "route" /\ st'.action_result # "")]_vars

\* model outputs that hold no parseable JSON object
NoJsonObject == {"call_failed", "no_json", "bad_braces", "null", "falsy_value",
                 "truthy_value"}

\* C9: when the model call fails or its output holds no parseable JSON object,
\* REASON sets plan to null and ACT records "no valid plan produced", calls no
\* collaborator and leaves the state store as it is.
C9_Original ==
    [][ /\ (pc = "reason" /\ pc' # "reason" /\ hist'.output \in NoJsonObject)
            => (pc' = "act" /\ st'.plan = PlanNone)
        /\ (pc = "act" /\ pc' # "act" /\ hist.output \in NoJsonObject)
            => /\ pc' = "route"
               /\ st'.action_result = "no valid plan produced"
               /\ hist'.act_calls = hist.act_calls
               /\ file' = file
               /\ chain' = chain ]_vars

\* C10: an ACT whose plan has a confidence strictly below the threshold
\* records the skip result, calls no collaborator and leaves the state store
\* and the wallet as they are; a plan whose confidence equals the threshold
\* is dispatched: the step counter moves and the action type is remembered.
C10_ConfidenceGate ==
    [][ (pc = "act" /\ pc' # "act" /\ st.plan.kind = "dict" /\ st.plan.confidence # <<>>)
        => IF st.plan.confidence[1] < confidence_threshold
               THEN /\ pc' = "route"
                    /\ st'.action_result = "skipped"
                    /\ st'.step = st.step
                    /\ hist'.act_calls = hist.act_calls
                    /\ file' = file
                    /\ chain' = chain
           ELSE st.plan.confidence[1] = confidence_threshold
                    => /\ pc' = "route"
                       /\ st'.action_result \notin {"skipped", "no valid plan produced"}
                       /\ st'.step = st.step + 1
                       /\ st'.last_action_type = st.plan.action_type ]_vars

\* C10 witness: a live wallet_send that the policy would have let through was
\* skipped for a confidence one hundredth below the threshold.
C10_Witness ==
    /\ pc = "route"
    /\ st.action_result = "skipped"
    /\ st.plan.action_type = "wallet_send"
    /\ st.plan.confidence = <<confidence_threshold - 1>>
    /\ ~proc.dry_run
    /\ check_wallet_send(file, today, mcfg, st.plan.amount, 44) = "pass"
    /\ chain.SOL >= st.plan.amount

\* C13: once REFLECT starts it ends with done = true whatever fails during
\* reconciliation: the balance query, the position read, or the write of the
\* drift or post-swap reflection.
C13_Original ==
    [][(pc = "reflect" /\ pc' # "reflect"
            /\ hist'.raised \notin {"append_trade", "append_reflection"})
        => (pc' = "done" /\ st'.done)]_vars

\* C14: no failure of a collaborator or of a store read or write inside
\* PERCEIVE or REASON aborts the run: PERCEIVE hands over to REASON and REASON
\* hands over to ACT.
C14_Original ==
    [][ /\ (pc = "perceive" /\ pc' # "perceive") => pc' = "reason"
        /\ (pc = "reason" /\ pc' # "reason" /\ hist'.raised # "reason")
              => pc' = "act" ]_vars

\* the bookkeeping a document carries
Bookkeeping(f) ==
    [daily_spend_sol |-> f.doc.daily_spend_sol, daily_swap_usd |-> f.doc.daily_swap_usd,
     positions |-> f.doc.positions, swap_history |-> f.doc.swap_history]

\* C15: for the same plan and the same document, a dry-run ACT and a real ACT
\* whose collaborator call succeeds leave the same bookkeeping (spend and swap
\* counters, positions, swap history).
C15_Original ==
    (/\ pc = "act"
     /\ st.plan.kind = "dict"
     /\ st.plan.confidence = <<confidence_threshold>>
     /\ st.plan.action_type \in {"wallet_send", "swap"}
     /\ chain.SOL >= st.plan.amount)
        => LET real == IF st.plan.action_type = "swap"
                           THEN SwapOutcome(st.plan, TRUE, FALSE)
                       ELSE WalletSendOutcome(st.plan, TRUE, FALSE)
               dry ==  IF st.plan.action_type = "swap"
                           THEN SwapOutcome(st.plan, TRUE, TRUE)
                       ELSE WalletSendOutcome(st.plan, TRUE, TRUE)
           IN  Bookkeeping(dry.file) = Bookkeeping(real.file)

\* C20: in a run without --dry-run, a swap plan at or above the confidence
\* threshold, with a positive amount, a sufficient balance and a notional within
\* the caps, is handed to the swap collaborator; when that returns a signature
\* the source position is decreased, the destination position increased, one
\* swap_history record appended and daily_swap_usd grown.
C20_Original ==
    (/\ pc = "act"
     /\ ~proc.dry_run
     /\ st.plan.kind = "dict"
     /\ st.plan.action_type = "swap"
     /\ st.plan.confidence = <<confidence_threshold>>
     /\ st.plan.amount > 0
     /\ chain.SOL >= st.plan.amount
     /\ check_swap(file, today, mcfg, "SOL", "USDC",
                   SwapNotional(file, st.plan.amount), proc.network) = "pass")
        => LET o == SwapOutcome(st.plan, TRUE, FALSE)
               before == Stored(AfterLoad(file))
               after == Stored(o.file)
           IN  /\ o.result = "swapped"
               /\ o.calls = 2
               /\ PositionOf(after.positions, "SOL").amount
                      <= PositionOf(before.positions, "SOL").amount
               /\ PositionOf(after.positions, "USDC").amount
                      > PositionOf(before.positions, "USDC").amount
               /\ Len(after.swap_history) = Len(before.swap_history) + 1
               /\ after.daily_swap_usd > before.daily_swap_usd

\* C21: a swap plan whose source token has a live balance of zero is skipped,
\* not failed: ACT leaves an action_result saying "Swap skipped: 0 <TOKEN>
\* balance" (a failed action leaves "action blocked/failed: ..."), calls no swap
\* collaborator and changes no position and no swap counter.
C21_Original ==
    [][(/\ pc = "act"
        /\ st.plan.kind = "dict"
        /\ st.plan.action_type = "swap"
        /\ st.plan.confidence = <<confidence_threshold>>
        /\ st.plan.amount > 0
        /\ chain.SOL = 0
        /\ pc' = "route")
            => /\ st'.action_result = "swap_skipped"
               /\ hist'.act_calls <= hist.act_calls + 1
               /\ Bookkeeping(file') = Bookkeeping(file)]_vars

ResearchActions == {"analyze", "scrape", "review_history"}

\* the routing step after the n-th ACT of the invocation
RoutesAfterAct(n) == pc = "route" /\ pc' # "route" /\ hist.acts = n

\* C25: with MAX_CYCLES = 2, after the first ACT a research action (analyze,
\* scrape, review_history) executed with success routes back to REASON, while
\* wallet_send, swap, extend_code, noop or an unrecognized action routes to
\* REFLECT; after the second ACT routing goes to REFLECT whatever the action.
C25_Original ==
    [][/\ (/\ RoutesAfterAct(1)
           /\ st.last_action_type \in ResearchActions
           /\ st.action_result \in {"analysis", "scraped", "history"})
               => pc' = "reason"
       /\ (/\ RoutesAfterAct(1)
           /\ st.step = 1
           /\ st.last_action_type \notin ResearchActions)
               => pc' = "reflect"
       /\ RoutesAfterAct(2) => pc' = "reflect"]_vars

\* C30: when the action executed in ACT fails (a policy violation or any
\* exception), routing goes straight to REFLECT whatever the action_type: a
\* failed analyze, scrape or review_history does not go back to REASON.
C30_Original ==
    [][(pc = "route" /\ pc' # "route" /\ st.action_result = "failed")
            => pc' = "reflect"]_vars

\* state.get("mainnet_transactions", [])
mainnet_transactions(state) ==
    IF "mainnet_transactions" \in DOMAIN state THEN state.mainnet_transactions ELSE <<>>

\* C28: a successful non-mock swap executed on mainnet without --dry-run
\* appends exactly one entry to the document's mainnet_transactions list.
C28_Original ==
    (/\ pc = "act"
     /\ proc.network = "mainnet"
     /\ ~proc.dry_run
     /\ st.plan.kind = "dict"
     /\ st.plan.action_type = "swap"
     /\ st.plan.confidence = <<confidence_threshold>>
     /\ st.plan.amount > 0
     /\ chain.SOL >= st.plan.amount
     /\ check_swap(file, today, mcfg, "SOL", "USDC",
                   SwapNotional(file, st.plan.amount), proc.network) = "pass")
        => LET o == SwapOutcome(st.plan, TRUE, FALSE)
           IN  /\ o.result = "swapped"
               /\ Len(mainnet_transactions(Stored(o.file)))
                      = Len(mainnet_transactions(Stored(AfterLoad(file)))) + 1

\* the policy checks that have to pass before a collaborator call of ACT
Gates(op) ==
    CASE op = "wallet_tool.send"    -> {"check_wallet_send"}
      [] op = "browser_tool.scrape" -> {"check_browser_url"}
      [] op = "swap_tool.swap"      -> {"check_swap"}
      [] op = "write_text"          -> {"check_git_paths", "check_loc_delta"}
      [] OTHER                      -> {}

\* entry i of a node's record comes after a passed check c on the same argument
PassedBefore(log, i, c) ==
    \E j \in 1..(i - 1) :
        /\ log[j].op = c
        /\ log[j].ok
        /\ log[j].node = log[i].node
        /\ log[j].arg = log[i].arg

\* C31: in ACT every side-effecting collaborator call (the wallet send, the
\* scrape, the swap, the sandbox's write of the target file) comes after its
\* policy checks have returned normally in the same ACT.
C31_PolicyGateFirst ==
    \A i \in DOMAIN hist.log :
        hist.log[i].node = "act"
            => \A c \in Gates(hist.log[i].op) : PassedBefore(hist.log, i, c)

\* a wallet send went out in the ACT that has just ended
C31_Witness ==
    /\ pc = "route"
    /\ st.action_result = "sent"
    /\ \E i \in DOMAIN hist.log : hist.log[i].op = "wallet_tool.send"

\* C32: every executed wallet_send of amount a reduces the tracked SOL position
\* of the ledger by a.
C32_Original ==
    [][(/\ pc = "act" /\ pc' = "route"
        /\ st.plan.kind = "dict" /\ st.plan.action_type = "wallet_send"
        /\ st'.action_result = "sent"
        /\ PositionOf(Stored(file).positions, "SOL").amount >= st.plan.amount)
            => PositionOf(Stored(file').positions, "SOL").amount
                   = PositionOf(Stored(file).positions, "SOL").amount - st.plan.amount]_vars

C35_Original ==
    \A i \in DOMAIN hist.log :
        hist.log[i].op = "browser_tool.scrape"
            => PassedBefore(hist.log, i, "check_browser_url")

\* C38: in one invocation at most one wallet_send, swap or extend_code is
\* dispatched, whatever the model returns in each cycle: the ACT that
\* dispatched one is followed by REFLECT.
C38_OneMovingAction ==
    [][/\ hist'.moves <= 1
       /\ (pc = "route" /\ pc' # "route" /\ st.last_action_type \in MovingActions)
              => pc' = "reflect"]_vars

\* a research action looped back to REASON and the second cycle sent SOL
C38_Witness ==
    /\ pc = "done"
    /\ hist.acts >= 2
    /\ hist.moves = 1
    /\ st.action_result = "sent"

\* the document a path holds, the default one when there is no file
DocOf(f) == IF f.kind = "doc" THEN f.doc ELSE DEFAULT_STATE

\* the reflections of a document that carry a given kind of text
ReflectionsOf(f, kind) ==
    {i \in DOMAIN DocOf(f).reflections : DocOf(f).reflections[i].text[1] = kind}

\* C33: a REFLECT that finds the live SOL balance more than 0.01 SOL away from
\* the tracked amount, in an invocation whose PERCEIVE stored a SOL close price,
\* sets the tracked SOL position to the live balance and appends a
\* "DRIFT RECONCILED" reflection.
C33_Original ==
    [][(/\ pc = "reflect" /\ pc' = "done"
        /\ Abs(chain.SOL - PositionOf(Stored(file).positions, "SOL").amount) > 1
        /\ "SOLUSDT" \in DOMAIN Stored(file).last_observations_prices
        \* the balance query succeeded: the drift was reported
        /\ ReflectionsOf(file', "drift") # ReflectionsOf(file, "drift"))
            => /\ PositionOf(Stored(file').positions, "SOL").amount = chain.SOL
               /\ ReflectionsOf(file', "reconciled") # ReflectionsOf(file, "reconciled")]_vars

\* the action type of the trade record REFLECT writes for a plan
RecordedActionType(plan) == IF plan.kind = "none" THEN "unknown" ELSE plan.action_type

\* C39: a REFLECT whose store writes succeed appends exactly one trade record
\* and exactly one plan/result reflection, both built from the plan and the
\* result of the last REASON->ACT cycle (action_type "unknown" for a null
\* plan); no REFLECT appends more than one trade, and no other node appends
\* any, so a research action that looped back to REASON has no record.
C39_OneTradePerRun ==
    [][IF pc # "reflect" THEN DocOf(file').trades = DocOf(file).trades
       ELSE /\ Len(DocOf(file').trades) <= Len(DocOf(file).trades) + 1
            /\ pc' = "done"
                  => /\ DocOf(file').trades
                           = Append(DocOf(file).trades,
                                    NewTrade(serial + 1, today, RecordedActionType(st.plan),
                                             st.action_result))
                     /\ \E i \in ReflectionsOf(file', "plan_result") :
                           /\ ReflectionsOf(file', "plan_result")
                                  = ReflectionsOf(file, "plan_result") \cup {i}
                           /\ i \notin ReflectionsOf(file, "plan_result")
                           /\ DocOf(file').reflections[i].text
                                  = PlanResultText(st.plan, st.action_result)]_vars

\* a run of two cycles, the first a research action, ended with one trade
\* record: that of the second cycle
C39_Witness ==
    /\ pc = "done"
    /\ hist.acts >= 2
    /\ st.plan.kind = "dict"
    /\ st.plan.action_type = "wallet_send"
    /\ Len(DocOf(file).trades) = 1
    /\ DocOf(file).trades[1].action_type = "wallet_send"

----------------------------------------------------------------------------
(* SpecBench: the benchmark anchor under the store's and the ledger's       *)
(* methods, each taken as one step, with rotation limits of one entry.      *)

TightConfig == [max_reflections |-> 1, max_trades |-> 1, max_swap_history |-> 1]

\* portfolio values and price maps handed to ensure_benchmark_initialized
BenchUsd == {10000, 99900}
BenchPrices == {[s \in {"SOL"} |-> 2000], [s \in {"SOL"} |-> 9900]}

InitBench ==
    /\ file = NoFile
    /\ tmp = NoFile
    /\ today = 1
    /\ mcfg = TightConfig
    /\ serial = 0
    /\ saveQ = <<>>
    /\ spc = "idle"
    /\ opRes = NoRes
    /\ call = NoCall
    /\ AgentIdle

BenchEnsure ==
    \E usd \in BenchUsd, prices \in BenchPrices :
        /\ file' = ensure_benchmark_initialized(file, usd, prices)
        /\ call' = [op |-> "ensure_benchmark_initialized", usd |-> usd,
                    prices |-> prices, day |-> today,
                    had |-> Stored(file).benchmark.start_date # NoDate]
        /\ UNCHANGED <<today, serial>>
        /\ Quiet

BenchAddSpend ==
    /\ Loaded.daily_spend_sol = 0
    /\ DoSave(add_spend(Loaded, 5, today))
    /\ call' = [op |-> "add_spend"]
    /\ UNCHANGED <<today, serial>>
    /\ Quiet

BenchAppendTrade ==
    /\ serial < MaxAppends
    /\ serial' = serial + 1
    /\ DoSave(append_trade(Loaded, serial + 1, today, "noop", "noop"))
    /\ call' = [op |-> "append_trade"]
    /\ UNCHANGED today
    /\ Quiet

\* a buy of 0.5 SOL when none is held, a sale of it otherwise
BenchUpdatePosition ==
    /\ LET delta == IF PositionOf(Loaded.positions, "SOL").amount = 0 THEN 50 ELSE -50
       IN  DoSave(update_position(Loaded, "SOL", delta, 4500, today))
    /\ call' = [op |-> "update_position"]
    /\ UNCHANGED <<today, serial>>
    /\ Quiet

BenchSetObservations ==
    /\ \E prices \in ObservedPrices : file' = set_observations_compressed(file, prices)
    /\ call' = [op |-> "set_observations_compressed"]
    /\ UNCHANGED <<today, serial>>
    /\ Quiet

BenchSync ==
    /\ file' = sync_from_onchain(file, [s \in {"SOL"} |-> 100], StartupPrices)
    /\ call' = [op |-> "sync_from_onchain"]
    /\ UNCHANGED <<today, serial>>
    /\ Quiet

BenchLoad ==
    /\ DoLoad
    /\ call' = [op |-> "load"]
    /\ UNCHANGED <<today, serial>>
    /\ Quiet

NextBench ==
    \/ BenchEnsure
    \/ BenchAddSpend
    \/ BenchAppendTrade
    \/ BenchUpdatePosition
    \/ BenchSetObservations
    \/ BenchSync
    \/ BenchLoad
    \/ NextDay

SpecBench == InitBench /\ [][NextBench]_vars

\* C11: once benchmark.start_date is set, no later store, ledger or
\* ensure_benchmark_initialized step changes start_date, start_portfolio_usd
\* or start_prices.
C11_BenchmarkImmutable ==
    [][(file.kind = "doc" /\ file.doc.benchmark.start_date # NoDate)
        => (file'.kind = "doc" /\ file'.doc.benchmark = file.doc.benchmark)]_vars

\* C11 witness: ensure_benchmark_initialized was called on a later day with
\* another value and other prices than the anchor, which is still the old one.
C11_Witness ==
    /\ call.op = "ensure_benchmark_initialized"
    /\ call.had
    /\ file.doc.benchmark.start_date # call.day
    /\ file.doc.benchmark.start_portfolio_usd # call.usd
    /\ file.doc.benchmark.start_prices # call.prices
    /\ Len(file.doc.trade_summaries) > 0

----------------------------------------------------------------------------
(* SpecFound: the store's methods on whatever the process finds at the      *)
(* path: nothing, a document, or a file that is no JSON document.           *)

FoundFiles == {NoFile, DocFile(add_spend(DEFAULT_STATE, 5, 1)), PartialFile, EmptyFile}

InitFound ==
    /\ file \in FoundFiles
    /\ tmp = NoFile
    /\ today = 1
    /\ mcfg = RoomyConfig
    /\ serial = 0
    /\ saveQ = <<>>
    /\ spc = "idle"
    /\ opRes = NoRes
    /\ call = NoCall
    /\ AgentIdle

\* what a caller of a store method sees: the method's name, what the path
\* held, whether load() inside it raised, and the state load() returned
FoundCall(name) ==
    [op |-> name, before_kind |-> file.kind,
     outcome |-> IF LoadRaises(file) THEN "raised" ELSE "returned",
     ret |-> IF LoadRaises(file) THEN DEFAULT_STATE ELSE Loaded]

FoundLoad ==
    /\ call' = FoundCall("load")
    /\ IF LoadRaises(file) THEN file' = file ELSE DoLoad
    /\ UNCHANGED <<today, serial>>
    /\ Quiet

FoundAddSpend ==
    /\ call' = FoundCall("add_spend")
    /\ IF LoadRaises(file) THEN file' = file
       ELSE /\ Loaded.daily_spend_sol < daily_spend_cap_sol
            /\ DoSave(add_spend(Loaded, 5, today))
    /\ UNCHANGED <<today, serial>>
    /\ Quiet

FoundAppendTrade ==
    /\ serial < MaxAppends
    /\ serial' = serial + 1
    /\ call' = FoundCall("append_trade")
    /\ IF LoadRaises(file) THEN file' = file
       ELSE DoSave(append_trade(Loaded, serial + 1, today, "noop", "noop"))
    /\ UNCHANGED today
    /\ Quiet

NextFound ==
    \/ FoundLoad
    \/ FoundAddSpend
    \/ FoundAppendTrade
    \/ NextDay

SpecFound == InitFound /\ [][NextFound]_vars

\* C12: load() returns the complete default document, without raising, both
\* when the file is missing and when it is present but unparsable.
C12_Original ==
    (call.op = "load" /\ call.before_kind \in {"none", "partial", "empty"})
        => (call.outcome = "returned" /\ call.ret = DEFAULT_STATE)

----------------------------------------------------------------------------
(* core/policy_engine.py: check_browser_url                                 *)

\* an allowlist as config.py carried it before it was emptied
ListedDomains == {"coingecko.com", "solana.com"}

Urls ==
    {[scheme |-> s, userinfo |-> u, host |-> h, port |-> p, path |-> q] :
        s \in BOOLEAN,
        u \in {<<>>, <<"user">>, <<"coingecko.com">>, <<"user", "pw">>,
               <<"coingecko.com", "pw">>},
        h \in {"coingecko.com", "CoinGecko.com", "api.coingecko.com", "evil.com"},
        p \in BOOLEAN,
        q \in {"", "coingecko.com", "../coingecko.com"}}

InitUrl == InitAtomic

UrlCall(allowed, url) ==
    /\ call' = [op |-> "check_browser_url", allowed |-> allowed, url |-> url,
                outcome |-> check_browser_url(allowed, url)]
    /\ UNCHANGED <<file, today, serial>>
    /\ Quiet

\* the engine built from PolicyConfig()
UrlCheckDefault == \E url \in Urls : UrlCall(allowed_domains, url)

\* the engine built with a non-empty allowlist
UrlCheckListed == \E url \in Urls : UrlCall(ListedDomains, url)

NextUrl == UrlCheckDefault \/ UrlCheckListed

SpecUrl == InitUrl /\ [][NextUrl]_vars

\* C18: with the default configuration check_browser_url accepts every URL.
C18_Original ==
    (call.op = "check_browser_url" /\ call.allowed = allowed_domains)
        => call.outcome = "pass"

\* the host a request for the URL goes to, lower-cased; none without "//"
HostAddressed(url) == IF url.scheme THEN <<LowerToken(url.host)>> ELSE <<>>

\* C19: with a non-empty allowlist check_browser_url passes only when the host
\* actually addressed, its port stripped, is exactly an entry: a subdomain, an
\* allowed name in the path and an allowed name in the userinfo are rejected
\* unless the real host is listed.
C19_Original ==
    (call.op = "check_browser_url" /\ call.allowed = ListedDomains
        /\ call.outcome = "pass")
        => InDomains(HostAddressed(call.url), ListedDomains)

----------------------------------------------------------------------------
(* SpecSandbox: Sandbox.apply called again and again on one checkout *)

\* commits one behaviour makes
MaxCommits == 2

SandboxPaths ==
    {[abs |-> FALSE, segs |-> q] :
        q \in {<<"tools", "x.py">>, <<"tools", "app", "x.py">>,
               <<"experiments", "x.py">>, <<"core", "x.py">>,
               <<"tools", "..", "x.py">>, <<"..", "x.py">>}}

\* texts of one line, of max_loc_delta lines and of more
NewTexts ==
    {[name |-> "patch", newlines |-> 1],
     [name |-> "long", newlines |-> max_loc_delta],
     [name |-> "huge", newlines |-> max_loc_delta + 4]}

InitSandbox == InitAtomic

SandboxApply ==
    /\ tree.commits < MaxCommits
    /\ \E path \in SandboxPaths, text \in NewTexts,
          fail \in SandboxFailures \cup {"none"} :
        LET r == apply(tree, path, text, fail)
        IN  /\ tree' = r.tree
            /\ call' = [op |-> "apply", path |-> path, text |-> text,
                        fail |-> fail, outcome |-> r.outcome]
    /\ UNCHANGED <<file, tmp, today, mcfg, serial, storeVars, pc, st, hist, chain, proc, inv>>

NextSandbox == SandboxApply

SpecSandbox == InitSandbox /\ [][NextSandbox]_vars

\* C16: when Sandbox.apply fails, at whichever stage, the file system is as it
\* was before the call: the target file has its previous content or does not
\* exist, and nothing else, a parent directory included, has been created.
C16_Original ==
    [][(call'.op = "apply" /\ call'.outcome # "push succeeded") => tree' = tree]_vars

----------------------------------------------------------------------------
(* SpecRace: two invocations of the wallet_send branch of ACT running side  *)
(* by side on one document and one wallet, within one day.  Each step is    *)
(* one call: check_wallet_send, wallet_tool.send, and the load() and the    *)
(* save() of add_spend.                                                     *)

Invocations == {1, 2}

\* what the wallet held when the day began
RaceBalance == 100

\* SOL sent earlier in the day, all of it recorded
RacePrior == {0, 40, 45}

RaceAmounts == {5, max_sol_per_tx}

InitRace ==
    /\ \E prior \in RacePrior :
        /\ file = IF prior = 0 THEN NoFile
                  ELSE DocFile(add_spend(DEFAULT_STATE, prior, 1))
        /\ chain = [SOL |-> RaceBalance - prior]
    /\ tmp = NoFile
    /\ today = 1
    /\ mcfg = RoomyConfig
    /\ serial = 0
    /\ saveQ = <<>>
    /\ spc = "idle"
    /\ opRes = NoRes
    /\ call = NoCall
    /\ pc = "off"
    /\ st = [plan |-> "none"]
    /\ hist = [runs |-> 0]
    /\ proc = [dry_run |-> FALSE, network |-> "devnet"]
    /\ tree = StartTree
    /\ inv = [i \in Invocations |->
                [pc |-> "idle", amount |-> 0, seen |-> 0, loaded |-> DEFAULT_STATE]]

RaceFrame ==
    UNCHANGED <<tmp, today, mcfg, serial, storeVars, call, pc, st, hist, proc, tree>>

\* policy.check_wallet_send(amount, dest): the amount checks, load(), the cap
RaceCheck(i) ==
    /\ inv[i].pc = "idle"
    /\ \E a \in RaceAmounts :
        /\ inv' = [inv EXCEPT ![i] =
                    [@ EXCEPT !.pc = IF check_wallet_send(file, today, mcfg, a, 44) = "pass"
                                         THEN "checked" ELSE "blocked",
                              !.amount = a,
                              !.seen = Stored(file).daily_spend_sol]]
        /\ file' = IF WalletSendLoads(a) THEN AfterLoad(file) ELSE file
    /\ UNCHANGED chain
    /\ RaceFrame

\* sig = wallet_tool.send(dest, amount)
RaceSend(i) ==
    /\ inv[i].pc = "checked"
    /\ \E ok \in BOOLEAN :
        IF ok /\ chain.SOL >= inv[i].amount
            THEN /\ chain' = [chain EXCEPT !.SOL = @ - inv[i].amount]
                 /\ inv' = [inv EXCEPT ![i].pc = "sent"]
        ELSE /\ chain' = chain
             /\ inv' = [inv EXCEPT ![i].pc = "failed"]
    /\ UNCHANGED file
    /\ RaceFrame

\* memory.add_spend(amount): state = self.load()
RaceAddSpendLoad(i) ==
    /\ inv[i].pc = "sent"
    /\ inv' = [inv EXCEPT ![i].pc = "adding", ![i].loaded = Stored(file)]
    /\ file' = AfterLoad(file)
    /\ UNCHANGED chain
    /\ RaceFrame

\* memory.add_spend(amount): the two assignments and self.save(state)
RaceAddSpendSave(i) ==
    /\ inv[i].pc = "adding"
    /\ inv' = [inv EXCEPT ![i].pc = "done"]
    /\ file' = Put(add_spend(inv[i].loaded, inv[i].amount, today))
    /\ UNCHANGED chain
    /\ RaceFrame

NextRace ==
    \E i \in Invocations :
        \/ RaceCheck(i)
        \/ RaceSend(i)
        \/ RaceAddSpendLoad(i)
        \/ RaceAddSpendSave(i)

SpecRace == InitRace /\ [][NextRace]_vars

\* SOL that left the wallet today
SentToday == RaceBalance - chain.SOL

----------------------------------------------------------------------------
(* SpecSync: sync_from_onchain against a ledger that update_position moves  *)

\* what get_all_balances returns: the symbols as the wallet spells them
LiveBalances == [{"SOL", "usdc"} -> {0, 100}]

InitSync == InitAtomic

\* a failing balance fetch returns before anything is compared
SyncCall ==
    \E fetched \in BOOLEAN, balances \in LiveBalances :
        /\ file' = sync_from_onchain(file, IF fetched THEN balances ELSE EmptyMap,
                                     StartupPrices)
        /\ call' = [op |-> "sync_from_onchain", fetched |-> fetched,
                    balances |-> balances, before |-> Loaded.positions]
        /\ UNCHANGED <<today, serial>>
        /\ Quiet

SyncUpdatePosition ==
    \E t \in {"SOL", "USDC"}, delta \in {50, -50} :
        /\ serial < MaxUpdates
        /\ serial' = serial + 1
        /\ DoSave(update_position(Loaded, t, delta, 30 * Abs(delta), today))
        /\ call' = [op |-> "update_position"]
        /\ UNCHANGED today
        /\ Quiet

NextSync ==
    \/ SyncCall
    \/ SyncUpdatePosition
    \/ NextDay

SpecSync == InitSync /\ [][NextSync]_vars

\* the live balance the wallet reported for a ledger key
LiveBalanceOf(balances, key) ==
    IF \E n \in DOMAIN balances : Upper(n) = key
        THEN balances[CHOOSE n \in DOMAIN balances : Upper(n) = key]
    ELSE 0

\* C27: sync_from_onchain leaves every token whose tracked amount is positive
\* exactly as it was; it writes a position only for a token with a positive
\* live balance and no positive tracked amount, and then with that balance;
\* and when the balance query fails no position changes.
C27_SyncFrame ==
    call.op = "sync_from_onchain" =>
        LET after == file.doc.positions
            seeded(k) == /\ call.fetched
                         /\ LiveBalanceOf(call.balances, k) > 0
                         /\ PositionOf(call.before, k).amount <= 0
        IN  /\ \A k \in DOMAIN call.before :
                  ~seeded(k) => (k \in DOMAIN after /\ after[k] = call.before[k])
            /\ \A k \in DOMAIN after :
                  IF seeded(k)
                      THEN /\ after[k].amount = LiveBalanceOf(call.balances, k)
                           /\ after[k].source = "onchain_sync"
                  ELSE k \in DOMAIN call.before

\* C27 witness: one sync seeded a token and left alone another one that is
\* tracked with a positive amount and has a different live balance
C27_Witness ==
    /\ call.op = "sync_from_onchain"
    /\ call.fetched
    /\ \E k \in DOMAIN call.before :
          /\ call.before[k].amount > 0
          /\ LiveBalanceOf(call.balances, k) > 0
          /\ LiveBalanceOf(call.balances, k) # call.before[k].amount
          /\ file.doc.positions[k] = call.before[k]
    /\ \E k \in DOMAIN file.doc.positions :
          /\ PositionOf(call.before, k).amount <= 0
          /\ file.doc.positions[k].source = "onchain_sync"

----------------------------------------------------------------------------
(* SpecHistory: the trade list read back.                                   *)

\* arr[start:] of Python: a negative start counts from the end, and -0 is 0
SliceFrom(arr, start) ==
    LET first == IF start < 0 THEN Max(Len(arr) + start, 0) ELSE Min(start, Len(arr))
    IN  SubSeq(arr, first + 1, Len(arr))

\* list(reversed(arr))
Reversed(arr) == [i \in 1..Len(arr) |-> arr[Len(arr) - i + 1]]

\* MemoryStore.recent_trades(n) on the loaded document
recent_trades(state, n) ==
    LET trades == IF "trades" \in DOMAIN state THEN state.trades ELSE <<>>
    IN  Reversed(SliceFrom(trades, -n))

\* _format_trade: the index the entry is printed under and the fields shown
format_trade(idx, t) ==
    [idx |-> idx, date |-> t.date, action_type |-> t.action_type, result |-> t.result]

\* HistoryTool.recent(n): a fixed sentence when there is nothing to show
recent(state, n) ==
    LET trades == recent_trades(state, n)
    IN  IF trades = <<>> THEN <<"no past actions recorded yet">>
        ELSE [i \in 1..Len(trades) |-> format_trade(i, trades[i])]

\* the targets a review_history plan carries: none, "" or a count
ReviewTargets == {<<>>} \cup {<<n>> : n \in 0..(MaxAppends + 1)}

\* int(plan.get("target", "5") or "5")
ReviewCount(target) == IF target = <<>> THEN 5 ELSE target[1]

\* the limits the store is built with: roomy ones, or a small max_trades
HistoryConfigs ==
    {RoomyConfig} \cup {[RoomyConfig EXCEPT !.max_trades = n] : n \in 1..MaxCap}

InitHistory ==
    /\ file = NoFile
    /\ tmp = NoFile
    /\ today = 1
    /\ mcfg \in HistoryConfigs
    /\ serial = 0
    /\ saveQ = <<>>
    /\ spc = "idle"
    /\ opRes = NoRes
    /\ call = NoCall
    /\ AgentIdle

HistoryAppendTrade ==
    /\ serial < MaxAppends
    /\ serial' = serial + 1
    /\ call' = [op |-> "append_trade"]
    /\ DoSave(append_trade(Loaded, serial + 1, today,
                           TradeKind(serial + 1)[1], TradeKind(serial + 1)[2]))
    /\ UNCHANGED today
    /\ Quiet

HistoryRecentTrades ==
    \E n \in 0..(MaxAppends + 1) :
        /\ call' = [op |-> "recent_trades", n |-> n, stored |-> Loaded.trades,
                    ret |-> recent_trades(Loaded, n)]
        /\ DoLoad
        /\ UNCHANGED <<today, serial>>
        /\ Quiet

HistoryReview ==
    \E target \in ReviewTargets :
        /\ call' = [op |-> "review_history", n |-> ReviewCount(target),
                    stored |-> Loaded.trades,
                    ret |-> recent(Loaded, ReviewCount(target))]
        /\ DoLoad
        /\ UNCHANGED <<today, serial>>
        /\ Quiet

\* another method that loads and saves between two appends
HistorySetObservations ==
    /\ \E prices \in ObservedPrices :
        /\ call' = [op |-> "set_observations_compressed"]
        /\ file' = set_observations_compressed(file, prices)
    /\ UNCHANGED <<today, serial>>
    /\ Quiet

NextHistory ==
    \/ HistoryAppendTrade
    \/ HistoryRecentTrades
    \/ HistoryReview
    \/ HistorySetObservations
    \/ NextDay

SpecHistory == InitHistory /\ [][NextHistory]_vars

\* the i-th most recent of the stored trades
NewestFirst(stored, i) == stored[Len(stored) - i + 1]

\* C29: recent_trades(n) returns exactly min(n, number of stored trades)
\* records, the most recent ones, newest first, for every n >= 0; a
\* review_history action with target n shows the same records.
C29_Original ==
    /\ call.op = "recent_trades"
        => /\ Len(call.ret) = Min(call.n, Len(call.stored))
           /\ \A i \in 1..Len(call.ret) : call.ret[i] = NewestFirst(call.stored, i)
    /\ (call.op = "review_history" /\ Min(call.n, Len(call.stored)) > 0)
        => /\ Len(call.ret) = Min(call.n, Len(call.stored))
           /\ \A i \in 1..Len(call.ret) :
                 call.ret[i] = format_trade(i, NewestFirst(call.stored, i))

\* the sum of the "total" fields of the summaries
RECURSIVE SummarizedTotal(_)
SummarizedTotal(summaries) ==
    IF summaries = <<>> THEN 0
    ELSE Head(summaries).total + SummarizedTotal(Tail(summaries))

\* C40: with max_trades > 0, the stored trades and the "total" fields of the
\* trade_summaries add up to the number of trades ever appended, whatever
\* other loads and saves come in between.
C40_TradesAccounted ==
    (file.kind = "doc" /\ mcfg.max_trades > 0)
        => Len(file.doc.trades) + SummarizedTotal(file.doc.trade_summaries) = serial

\* a list capped at one trade has been rotated twice: two summaries account
\* for two of the three trades appended
C40_Witness ==
    /\ file.kind = "doc"
    /\ mcfg.max_trades = 1
    /\ serial >= 3
    /\ Len(file.doc.trades) = 1
    /\ Len(file.doc.trade_summaries) >= 2

----------------------------------------------------------------------------
(* SpecSwapTool: tools/swap_tool.py, SwapTool.swap with the strategy as an  *)
(* input: it returns a signature or raises.                                 *)

\* RPC URLs as the text between the dots: the public devnet and mainnet nodes
\* and the devnet node written in capitals
RpcUrls == { <<"https://api", "devnet", "solana", "com">>,
             <<"https://API", "DEVNET", "SOLANA", "COM">>,
             <<"https://api", "mainnet-beta", "solana", "com">> }

\* NetworkDetector.detect: "devnet" in rpc_url.lower()
detect(rpc_url) ==
    IF \E i \in DOMAIN rpc_url : lower(rpc_url)[i] = "devnet" THEN "devnet" ELSE "mainnet"

\* NetworkTokens.mint_for_symbol raises ValueError: WBTC has no devnet mint,
\* other symbols have none at all
MintRaises(network, symbol) ==
    CASE Upper(symbol) \in {"SOL", "USDC"} -> FALSE
      [] Upper(symbol) \in {"WBTC", "BTC"} -> network = "devnet"
      [] OTHER                             -> TRUE

\* how strategy.execute_swap ends: with a signature, or with an exception of
\* a type (RuntimeError or another one) whose message does or does not hold
\* the words "No liquidity pool"
StrategyOutcomes ==
    {[kind |-> "signature", type |-> "", no_liquidity |-> FALSE]}
    \cup [kind : {"raised"}, type : {"RuntimeError", "HTTPError"}, no_liquidity : BOOLEAN]

Returned(sig) == [kind |-> "returned", signature |-> sig, error |-> ""]
Raised(type)  == [kind |-> "raised", signature |-> "", error |-> type]

\* a swap that falls back to the mock on every network
swap_mock_everywhere(network, from_token, to_token, amount_lamports, strategy) ==
    IF amount_lamports <= 0 THEN Raised("ValueError")
    ELSE IF MintRaises(network, from_token) \/ MintRaises(network, to_token)
        THEN Raised("ValueError")
    ELSE IF strategy.kind = "signature" THEN Returned("real")
    ELSE IF strategy.type = "RuntimeError" /\ strategy.no_liquidity
        THEN Returned("DEVNET-MOCK-SWAP")
    ELSE Raised(strategy.type)

\* SwapTool.swap(from_token, to_token, amount_lamports) of a tool built for
\* network, the strategy ending as given
swap(network, from_token, to_token, amount_lamports, strategy) ==
    IF amount_lamports <= 0 THEN Raised("ValueError")
    ELSE IF MintRaises(network, from_token) \/ MintRaises(network, to_token)
        THEN Raised("ValueError")
    ELSE IF strategy.kind = "signature" THEN Returned("real")
    ELSE IF strategy.type = "RuntimeError" /\ network = "devnet" /\ strategy.no_liquidity
        THEN Returned("DEVNET-MOCK-SWAP")
    ELSE Raised(strategy.type)

\* SwapTool(keypair, rpc_url, api_key): the network is detected once; a
\* mainnet tool needs an API key
InitSwapTool ==
    /\ file = NoFile
    /\ tmp = NoFile
    /\ today = 1
    /\ mcfg = RoomyConfig
    /\ serial = 0
    /\ saveQ = <<>>
    /\ spc = "idle"
    /\ opRes = NoRes
    /\ call = NoCall
    /\ pc = "off"
    /\ st = [plan |-> "none"]
    /\ hist = [runs |-> 0]
    /\ chain = [SOL |-> 0]
    /\ \E url \in RpcUrls, api_key \in BOOLEAN :
        /\ detect(url) = "mainnet" => api_key
        /\ proc = [dry_run |-> FALSE, network |-> detect(url), rpc_url |-> url,
                   api_key |-> api_key]
    /\ tree = StartTree
    /\ inv = <<>>

SwapToolSwap ==
    /\ \E from_token \in {"SOL", "WBTC"}, to_token \in {"usdc", "DOGE"},
          amount_lamports \in {0, 5}, strategy \in StrategyOutcomes :
        call' = [op |-> "swap", from_token |-> from_token, to_token |-> to_token,
                 amount_lamports |-> amount_lamports, strategy |-> strategy,
                 ret |-> swap(proc.network, from_token, to_token, amount_lamports,
                              strategy)]
    /\ UNCHANGED <<diskVars, today, mcfg, serial, storeVars, agentVars>>

NextSwapTool == SwapToolSwap

SpecSwapTool == InitSwapTool /\ [][NextSwapTool]_vars

\* the strategy failed with the no-liquidity error
NoLiquidityError(strategy) ==
    strategy.kind = "raised" /\ strategy.type = "RuntimeError" /\ strategy.no_liquidity

\* C36: swap returns the synthetic "DEVNET-MOCK-SWAP-..." signature only on
\* devnet and only when the strategy failed with the no-liquidity error; on
\* mainnet, and for every other failure of the strategy, the call raises the
\* strategy's error and returns no signature.
C36_MockOnlyOnDevnet ==
    call.op = "swap" =>
        /\ call.ret.signature = "DEVNET-MOCK-SWAP"
              => (proc.network = "devnet" /\ NoLiquidityError(call.strategy))
        /\ (/\ call.strategy.kind = "raised"
            /\ (proc.network = "mainnet" \/ ~NoLiquidityError(call.strategy)))
              => /\ call.ret.kind = "raised"
                 /\ call.ret.signature = ""
                 /\ call.ret.error \in {call.strategy.type, "ValueError"}

\* the devnet node written in capitals: the pool is missing and the mock
\* signature comes back
C36_Witness ==
    /\ call.op = "swap"
    /\ proc.rpc_url[2] = "DEVNET"
    /\ NoLiquidityError(call.strategy)
    /\ call.ret = Returned("DEVNET-MOCK-SWAP")

----------------------------------------------------------------------------
(* SpecDay: invocations run one after another without --dry-run.  Of each   *)
(* invocation the steps that touch the spend counter are taken: the store   *)
(* write of PERCEIVE and the wallet_send branch of ACT.  hist is the        *)
(* wallet's own account of the day: the SOL sent on day hist.day.           *)

\* params.amount_sol of the wallet_send plans
DayAmounts == {1, 5, max_sol_per_tx, max_sol_per_tx + 1}

InitDay ==
    /\ file = NoFile
    /\ tmp = NoFile
    /\ today = 1
    /\ mcfg = DefaultMemoryConfig
    /\ serial = 0
    /\ saveQ = <<>>
    /\ spc = "idle"
    /\ opRes = NoRes
    /\ call = NoCall
    /\ pc = "off"
    /\ st = [plan |-> "none"]
    /\ hist = [sent |-> 0, day |-> 1]
    /\ chain = [SOL |-> RaceBalance]
    /\ proc = [dry_run |-> FALSE, network |-> "devnet"]
    /\ tree = StartTree
    /\ inv = <<>>

DayFrame == UNCHANGED <<tmp, today, mcfg, serial, storeVars, pc, st, proc, tree, inv>>

\* perceive_node: memory.set_observations_compressed(observations)
DayPerceive ==
    /\ \E prices \in ObservedPrices : file' = set_observations_compressed(file, prices)
    /\ UNCHANGED <<call, hist, chain>>
    /\ DayFrame

\* act_node with a wallet_send plan at the confidence threshold
DayWalletSend ==
    /\ \E amount \in DayAmounts, ok \in BOOLEAN :
        LET plan == [kind |-> "dict", action_type |-> "wallet_send",
                     confidence |-> <<confidence_threshold>>, amount |-> amount]
            o == WalletSendOutcome(plan, ok, proc.dry_run)
        IN  /\ file' = o.file
            /\ chain' = [chain EXCEPT !.SOL = o.SOL]
            /\ call' = [op |-> "wallet_send", amount |-> amount, ok |-> ok,
                        result |-> o.result]
            /\ hist' = IF o.result # "sent" THEN hist
                       ELSE [sent |-> (IF hist.day = today THEN hist.sent ELSE 0) + amount,
                             day |-> today]
    /\ DayFrame

NextOfDay ==
    \/ DayPerceive
    \/ DayWalletSend
    \/ NextDay

SpecDay == InitDay /\ [][NextOfDay]_vars

\* the SOL the wallet sent on day d
SentOn(d) == IF hist.day = d THEN hist.sent ELSE 0

\* C37: with invocations run one after another, the persisted daily_spend_sol
\* never exceeds daily_spend_cap_sol and equals the sum of the amounts of the
\* wallet sends executed on the day it is dated.
C37_SequentialSpend ==
    file.kind = "doc" =>
        /\ file.doc.daily_spend_sol <= daily_spend_cap_sol
        /\ file.doc.daily_spend_sol = SentOn(file.doc.daily_spend_date)

\* the day's sends have used up the cap exactly and the next one, which the
\* wallet could have paid, was refused
C37_Witness ==
    /\ file.kind = "doc"
    /\ file.doc.daily_spend_date = today
    /\ file.doc.daily_spend_sol = daily_spend_cap_sol
    /\ hist = [sent |-> daily_spend_cap_sol, day |-> today]
    /\ call.op = "wallet_send"
    /\ call.ok
    /\ call.amount <= max_sol_per_tx
    /\ call.result = "failed"
    /\ chain.SOL >= call.amount

====
